---------------------------- MODULE Spec2Model ----------------------------
(***************************************************************************)
(* Model of the programming assistant: the orchestrator                    *)
(* (src/src/assistant.py), the six provider clients and their factory      *)
(* (src/src/api_clients/), the code extractor (src/src/utils.py) and the   *)
(* code analyzer (src/src/code_analyzer.py).                               *)
(*                                                                         *)
(* A Python str is a sequence of one-character strings, so that lower(),   *)
(* `in`, split(), strip() and the regular expressions of the source are    *)
(* computed character by character.  A value that may be None is a record  *)
(* [t, v]: Str(s) or None.                                                 *)
(***************************************************************************)
EXTENDS Integers, Sequences, FiniteSets, TLC

----------------------------------------------------------------------------
(* Python values and str operations *)

Str(s) == [t |-> "str", v |-> s]
None == [t |-> "NoneType", v |-> <<>>]

\* truth value of an Optional[str]: `if x:`, `not x`, `x or y`
Truthy(x) == x.t = "str" /\ x.v # <<>>

\* x or y
Or(x, y) == IF Truthy(x) THEN x ELSE y

lower_char(c) ==
    CASE c = "A" -> "a" [] c = "B" -> "b" [] c = "C" -> "c" [] c = "D" -> "d"
      [] c = "E" -> "e" [] c = "F" -> "f" [] c = "G" -> "g" [] c = "H" -> "h"
      [] c = "I" -> "i" [] c = "J" -> "j" [] c = "K" -> "k" [] c = "L" -> "l"
      [] c = "M" -> "m" [] c = "N" -> "n" [] c = "O" -> "o" [] c = "P" -> "p"
      [] c = "Q" -> "q" [] c = "R" -> "r" [] c = "S" -> "s" [] c = "T" -> "t"
      [] c = "U" -> "u" [] c = "V" -> "v" [] c = "W" -> "w" [] c = "X" -> "x"
      [] c = "Y" -> "y" [] c = "Z" -> "z" [] OTHER -> c

\* s.lower()
lower(s) == [i \in 1..Len(s) |-> lower_char(s[i])]

\* s[i:].startswith(p), i counted from 1
StartsAt(s, i, p) ==
    /\ i >= 1
    /\ i + Len(p) - 1 <= Len(s)
    /\ SubSeq(s, i, i + Len(p) - 1) = p

\* p in s
Contains(s, p) == \E i \in 1..(Len(s) + 1) : StartsAt(s, i, p)

\* s.find(p, from): the first index >= from where p starts, 0 when there is none
Find(s, p, from) ==
    IF \E i \in from..(Len(s) + 1) : StartsAt(s, i, p)
    THEN CHOOSE i \in from..(Len(s) + 1) :
            /\ StartsAt(s, i, p)
            /\ \A k \in from..(i - 1) : ~StartsAt(s, k, p)
    ELSE 0

isspace(c) == c \in {" ", "\t", "\n", "\r", "\f"}

\* len(s.split()): the number of maximal runs of non-whitespace characters
split_len(s) ==
    Cardinality({i \in 1..Len(s) :
                    /\ ~isspace(s[i])
                    /\ (i = 1 \/ isspace(s[i - 1]))})

\* s.strip()
strip(s) ==
    LET keep == {i \in 1..Len(s) : ~isspace(s[i])}
    IN  IF keep = {} THEN <<>>
        ELSE LET lo == CHOOSE i \in keep : \A k \in keep : i <= k
                 hi == CHOOSE i \in keep : \A k \in keep : k <= i
             IN  SubSeq(s, lo, hi)

\* s.split('\n')
RECURSIVE split_lines(_)
split_lines(s) ==
    LET n == Find(s, <<"\n">>, 1)
    IN  IF n = 0 THEN <<s>>
        ELSE <<SubSeq(s, 1, n - 1)>> \o split_lines(SubSeq(s, n + 1, Len(s)))

\* '\n'.join(lines)
RECURSIVE join_lines(_)
join_lines(lines) ==
    IF lines = <<>> THEN <<>>
    ELSE IF Len(lines) = 1 THEN lines[1]
    ELSE lines[1] \o <<"\n">> \o join_lines(Tail(lines))

----------------------------------------------------------------------------
(* utils.extract_code *)

\* The backquote character (a TLA+ string cannot hold one).
bq == "backquote"

Fence == <<bq,bq,bq>>

\* Where the body of a fenced block opening at i starts, 0 when the pattern
\* ```(?:python)?\n does not match at i.
fence_body_start(text, i) ==
    IF ~StartsAt(text, i, Fence) THEN 0
    ELSE IF StartsAt(text, i + 3, <<"p","y","t","h","o","n","\n">>) THEN i + 10
    ELSE IF StartsAt(text, i + 3, <<"\n">>) THEN i + 4
    ELSE 0

\* re.findall(r'```(?:python)?\n(.*?)```', text, re.DOTALL)[0]: the body of the
\* leftmost match, up to the first closing fence (lazy, across lines).
fence_matches(text, i) ==
    /\ fence_body_start(text, i) # 0
    /\ Find(text, Fence, fence_body_start(text, i)) # 0

first_code_block(text) ==
    LET i == CHOOSE k \in 1..Len(text) :
                /\ fence_matches(text, k)
                /\ \A m \in 1..(k - 1) : ~fence_matches(text, m)
        b == fence_body_start(text, i)
    IN  SubSeq(text, b, Find(text, Fence, b) - 1)

is_indented(line) == StartsAt(line, 1, <<" "," "," "," ">>) \/ StartsAt(line, 1, <<"\t">>)

\* The loop over the lines: acc is indented_lines, in_block is
\* in_indented_block; the loop breaks at the first other line after the block
\* began.
RECURSIVE indented_loop(_, _, _)
indented_loop(lines, acc, in_block) ==
    IF lines = <<>> THEN acc
    ELSE IF is_indented(lines[1])
         THEN indented_loop(Tail(lines), Append(acc, lines[1]), TRUE)
    ELSE IF strip(lines[1]) = <<>> /\ in_block
         THEN indented_loop(Tail(lines), Append(acc, <<>>), in_block)
    ELSE IF in_block THEN acc
    ELSE indented_loop(Tail(lines), acc, in_block)

extract_code(text) ==
    IF \E i \in 1..Len(text) : fence_matches(text, i)
    THEN Str(strip(first_code_block(text)))
    ELSE LET indented_lines == indented_loop(split_lines(text), <<>>, FALSE)
         IN  IF indented_lines # <<>> THEN Str(join_lines(indented_lines))
             ELSE None

----------------------------------------------------------------------------
(* The HTTP exchange of one generation call.                               *)
(*                                                                         *)
(* The vendor's answer is an input: requests.post either raises            *)
(* ([kind |-> "exception", msg]) or returns a response with a status and a *)
(* body ([kind |-> "response", status, body]).  A body is a JSON value     *)
(* (null, string, array, object keyed by str) or NotJson.                  *)

JNull == [j |-> "null"]
JStr(s) == [j |-> "str", s |-> s]
JArr(a) == [j |-> "arr", a |-> a]
JObj(f) == [j |-> "obj", f |-> f]
NotJson == [j |-> "invalid"]

\* The outcome of evaluating an expression inside a try block: a value, or the
\* str() of the exception raised.
Ok(v) == [ok |-> TRUE, val |-> v, err |-> <<>>]
Err(m) == [ok |-> FALSE, val |-> JNull, err |-> m]

type_name(x) ==
    CASE x.j = "null" -> <<"N","o","n","e","T","y","p","e">>
      [] x.j = "str" -> <<"s","t","r">>
      [] x.j = "arr" -> <<"l","i","s","t">>
      [] OTHER -> <<"d","i","c","t">>

\* r[key] for a str key
subscript_key(r, key) ==
    IF ~r.ok THEN r
    ELSE CASE r.val.j = "obj" ->
                IF key \in DOMAIN r.val.f THEN Ok(r.val.f[key])
                ELSE Err(<<"'">> \o key \o <<"'">>)
           [] r.val.j = "arr" ->
                Err(<<"l","i","s","t"," ","i","n","d","i","c","e","s"," ","m","u","s","t"," ","b","e"," ","i","n","t","e","g","e","r","s"," ","o","r"," ","s","l","i","c","e","s",","," ","n","o","t"," ","s","t","r">>)
           [] r.val.j = "str" ->
                Err(<<"s","t","r","i","n","g"," ","i","n","d","i","c","e","s"," ","m","u","s","t"," ","b","e"," ","i","n","t","e","g","e","r","s",","," ","n","o","t"," ","'","s","t","r","'">>)
           [] OTHER -> Err(<<"'","N","o","n","e","T","y","p","e","'"," ","o","b","j","e","c","t"," ","i","s"," ","n","o","t"," ","s","u","b","s","c","r","i","p","t","a","b","l","e">>)

\* r[0]
subscript_0(r) ==
    IF ~r.ok THEN r
    ELSE CASE r.val.j = "arr" ->
                IF r.val.a # <<>> THEN Ok(r.val.a[1])
                ELSE Err(<<"l","i","s","t"," ","i","n","d","e","x"," ","o","u","t"," ","o","f"," ","r","a","n","g","e">>)
           [] r.val.j = "obj" -> Err(<<"0">>)
           [] r.val.j = "str" ->
                IF r.val.s # <<>> THEN Ok(JStr(<<r.val.s[1]>>))
                ELSE Err(<<"s","t","r","i","n","g"," ","i","n","d","e","x"," ","o","u","t"," ","o","f"," ","r","a","n","g","e">>)
           [] OTHER -> Err(<<"'","N","o","n","e","T","y","p","e","'"," ","o","b","j","e","c","t"," ","i","s"," ","n","o","t"," ","s","u","b","s","c","r","i","p","t","a","b","l","e">>)

\* The Python object a generation call returns for a JSON value it extracted.
to_py(x) ==
    CASE x.j = "str" -> Str(x.s)
      [] x.j = "null" -> None
      [] x.j = "arr" -> [t |-> "list", v |-> x.a]
      [] OTHER -> [t |-> "dict", v |-> x.f]

\* str(e) of the HTTPError raised by response.raise_for_status()
http_error_message(status) ==
    IF status < 500 THEN <<"4","0","1"," ","C","l","i","e","n","t"," ","E","r","r","o","r",":"," ","U","n","a","u","t","h","o","r","i","z","e","d"," ","f","o","r"," ","u","r","l">>
    ELSE <<"5","0","0"," ","S","e","r","v","e","r"," ","E","r","r","o","r",":"," ","I","n","t","e","r","n","a","l"," ","S","e","r","v","e","r"," ","E","r","r","o","r"," ","f","o","r"," ","u","r","l">>

\* requests.post(...); response.raise_for_status(); result = response.json()
post_json(o) ==
    IF o.kind = "exception" THEN Err(o.msg)
    ELSE IF 400 <= o.status /\ o.status < 600
         THEN Err(http_error_message(o.status))
    ELSE IF o.body = NotJson
         THEN Err(<<"E","x","p","e","c","t","i","n","g"," ","v","a","l","u","e",":"," ","l","i","n","e"," ","1"," ","c","o","l","u","m","n"," ","1"," ","(","c","h","a","r"," ","0",")">>)
    ELSE Ok(o.body)

\* except Exception as e: return f"I encountered an error: {error_msg}. ..."
\* with error_msg = f"Error when calling {label} API: {str(e)}"
error_string(label, msg) ==
    <<"I"," ","e","n","c","o","u","n","t","e","r","e","d"," ","a","n"," ","e","r","r","o","r",":"," ","E","r","r","o","r"," ","w","h","e","n"," ","c","a","l","l","i","n","g"," ">> \o label \o <<" ","A","P","I",":"," ">>
        \o msg \o <<"."," ","P","l","e","a","s","e"," ","c","h","e","c","k"," ","y","o","u","r"," ","A","P","I"," ","k","e","y"," ","a","n","d"," ","n","e","t","w","o","r","k"," ","c","o","n","n","e","c","t","i","o","n",".">>

\* f"{x}" for a str or None
format(x) == IF x.t = "str" THEN x.v ELSE <<"N","o","n","e">>

\* The try block's result: the extracted object, or the error string.
try_result(label, r) ==
    IF r.ok THEN to_py(r.val) ELSE Str(error_string(label, r.err))

----------------------------------------------------------------------------
(* The provider clients.  A client is a record                             *)
(*   [cls, api_key, model, api_endpoint]                                   *)
(* (api_endpoint is GeminiAPIClient's api_base).  A generation call        *)
(* returns [request, value]: the request it posted and the object it       *)
(* returned.                                                               *)

default_max_tokens == 4000

\* default_system_prompt of the Claude and OpenAI clients (first sentence)
default_system_prompt == Str(<<"Y","o","u"," ","a","r","e"," ","a","n"," ","A","I"," ","p","r","o","g","r","a","m","m","i","n","g"," ","a","s","s","i","s","t","a","n","t",".">>)

json_headers == "Content-Type" :> <<"a","p","p","l","i","c","a","t","i","o","n","/","j","s","o","n">>

bearer_headers(self) ==
    json_headers @@ ("Authorization" :> (<<"B","e","a","r","e","r"," ">> \o self.api_key.v))

\* requests.post(url, headers=headers, json=json) and the object returned
call(url, headers, json, r) ==
    [request |-> [url |-> url, headers |-> headers, json |-> json], value |-> r]

user_message(prompt) == [role |-> "user", content |-> Str(prompt)]
system_message(system_prompt) == [role |-> "system", content |-> system_prompt]

\* --- ClaudeAPIClient
claude_headers(self) ==
    json_headers @@ ("x-api-key" :> self.api_key.v)
                 @@ ("anthropic-version" :> <<"2","0","2","3","-","0","6","-","0","1">>)

claude_text(o) ==
    subscript_key(subscript_0(subscript_key(post_json(o), <<"c","o","n","t","e","n","t">>)), <<"t","e","x","t">>)

ClaudeAPIClient_generate_response(self, prompt, system_prompt, max_tokens, o) ==
    call(self.api_endpoint, claude_headers(self),
         [model |-> self.model,
          system |-> Or(system_prompt, default_system_prompt),
          max_tokens |-> max_tokens,
          messages |-> <<user_message(prompt)>>],
         try_result(<<"C","l","a","u","d","e">>, claude_text(o)))

ClaudeAPIClient_generate_response_with_history(self, messages, system_prompt, max_tokens, o) ==
    call(self.api_endpoint, claude_headers(self),
         [model |-> self.model,
          system |-> Or(system_prompt, default_system_prompt),
          max_tokens |-> max_tokens,
          messages |-> messages],
         try_result(<<"C","l","a","u","d","e">>, claude_text(o)))

\* --- OpenAIAPIClient
chat_text(o) ==
    subscript_key(subscript_key(subscript_0(subscript_key(post_json(o),
        <<"c","h","o","i","c","e","s">>)), <<"m","e","s","s","a","g","e">>), <<"c","o","n","t","e","n","t">>)

OpenAIAPIClient_generate_response(self, prompt, system_prompt, max_tokens, o) ==
    call(self.api_endpoint, bearer_headers(self),
         [model |-> self.model,
          messages |-> <<system_message(Or(system_prompt, default_system_prompt)),
                         user_message(prompt)>>,
          max_tokens |-> max_tokens],
         try_result(<<"O","p","e","n","A","I">>, chat_text(o)))

OpenAIAPIClient_generate_response_with_history(self, messages, system_prompt, max_tokens, o) ==
    call(self.api_endpoint, bearer_headers(self),
         [model |-> self.model,
          messages |-> <<system_message(Or(system_prompt, default_system_prompt))>>
                          \o messages,
          max_tokens |-> max_tokens],
         try_result(<<"O","p","e","n","A","I">>, chat_text(o)))

\* --- GeminiAPIClient
gemini_url(self) ==
    self.api_endpoint \o <<"/">> \o self.model \o <<":","g","e","n","e","r","a","t","e","C","o","n","t","e","n","t","?","k","e","y","=">>
        \o self.api_key.v

generation_config(max_tokens) ==
    [maxOutputTokens |-> max_tokens, temperature |-> "0.7", topP |-> "0.95",
     topK |-> 40]

gemini_text(o) ==
    subscript_key(subscript_0(subscript_key(subscript_key(subscript_0(
        subscript_key(post_json(o), <<"c","a","n","d","i","d","a","t","e","s">>)), <<"c","o","n","t","e","n","t">>),
        <<"p","a","r","t","s">>)), <<"t","e","x","t">>)

gemini_system_part(system_prompt) ==
    [text |-> Str(<<"S","y","s","t","e","m",":"," ">> \o system_prompt.v)]

GeminiAPIClient_generate_response(self, prompt, system_prompt, max_tokens, o) ==
    call(gemini_url(self), <<>>,
         [contents |-> <<[parts |->
              (IF Truthy(system_prompt) THEN <<gemini_system_part(system_prompt)>>
               ELSE <<>>) \o <<[text |-> Str(prompt)]>>]>>,
          generationConfig |-> generation_config(max_tokens)],
         try_result(<<"G","e","m","i","n","i">>, gemini_text(o)))

gemini_content(msg) ==
    [role |-> IF msg.role = "user" THEN "user" ELSE "model",
     parts |-> <<[text |-> msg.content]>>]

GeminiAPIClient_generate_response_with_history(self, messages, system_prompt, max_tokens, o) ==
    call(gemini_url(self), <<>>,
         [contents |->
              (IF Truthy(system_prompt)
               THEN <<[role |-> "user", parts |-> <<gemini_system_part(system_prompt)>>]>>
               ELSE <<>>)
              \o [i \in 1..Len(messages) |-> gemini_content(messages[i])],
          generationConfig |-> generation_config(max_tokens)],
         try_result(<<"G","e","m","i","n","i">>, gemini_text(o)))

\* --- HuggingFaceAPIClient
hf_url(self) == self.api_endpoint \o <<"/">> \o self.model

hf_parameters(max_tokens) == [max_new_tokens |-> max_tokens, return_full_text |-> FALSE]

\* if isinstance(result, list) and result: return result[0].get("generated_text", "")
\* return "No response generated from the model."
hf_text(o) ==
    LET r == post_json(o)
    IN  IF ~r.ok THEN r
        ELSE IF r.val.j = "arr" /\ r.val.a # <<>>
             THEN LET first == r.val.a[1]
                  IN  IF first.j = "obj"
                      THEN IF <<"g","e","n","e","r","a","t","e","d","_","t","e","x","t">> \in DOMAIN first.f
                           THEN Ok(first.f[<<"g","e","n","e","r","a","t","e","d","_","t","e","x","t">>])
                           ELSE Ok(JStr(<<>>))
                      ELSE Err(<<"'">> \o type_name(first)
                               \o <<"'"," ","o","b","j","e","c","t"," ","h","a","s"," ","n","o"," ","a","t","t","r","i","b","u","t","e"," ","'","g","e","t","'">>)
        ELSE Ok(JStr(<<"N","o"," ","r","e","s","p","o","n","s","e"," ","g","e","n","e","r","a","t","e","d"," ","f","r","o","m"," ","t","h","e"," ","m","o","d","e","l",".">>))

HuggingFaceAPIClient_generate_response(self, prompt, system_prompt, max_tokens, o) ==
    call(hf_url(self), bearer_headers(self),
         [inputs |-> IF Truthy(system_prompt)
                     THEN <<"<","s",">","[","I","N","S","T","]"," ">> \o system_prompt.v \o <<"\n","\n">> \o prompt
                              \o <<" ","[","/","I","N","S","T","]","<","/","s",">">>
                     ELSE prompt,
          parameters |-> hf_parameters(max_tokens)],
         try_result(<<"H","u","g","g","i","n","g"," ","F","a","c","e">>, hf_text(o)))

RECURSIVE hf_conversation(_)
hf_conversation(messages) ==
    IF messages = <<>> THEN <<>>
    ELSE (IF messages[1].role = "user" THEN <<"U","s","e","r">> ELSE <<"A","s","s","i","s","t","a","n","t">>)
            \o <<":"," ">> \o format(messages[1].content) \o <<"\n","\n">>
            \o hf_conversation(Tail(messages))

HuggingFaceAPIClient_generate_response_with_history(self, messages, system_prompt, max_tokens, o) ==
    call(hf_url(self), bearer_headers(self),
         [inputs |-> (IF Truthy(system_prompt)
                      THEN <<"S","y","s","t","e","m",":"," ">> \o system_prompt.v \o <<"\n","\n">>
                      ELSE <<>>)
                     \o hf_conversation(messages) \o <<"A","s","s","i","s","t","a","n","t",":"," ">>,
          parameters |-> hf_parameters(max_tokens)],
         try_result(<<"H","u","g","g","i","n","g"," ","F","a","c","e">>, hf_text(o)))

\* --- GrokAPIClient and DeepseekAPIClient
optional_system(system_prompt) ==
    IF Truthy(system_prompt) THEN <<system_message(system_prompt)>> ELSE <<>>

GrokAPIClient_generate_response(self, prompt, system_prompt, max_tokens, o) ==
    call(self.api_endpoint, bearer_headers(self),
         [model |-> self.model,
          messages |-> optional_system(system_prompt) \o <<user_message(prompt)>>,
          max_tokens |-> max_tokens],
         try_result(<<"G","r","o","k">>, chat_text(o)))

GrokAPIClient_generate_response_with_history(self, messages, system_prompt, max_tokens, o) ==
    call(self.api_endpoint, bearer_headers(self),
         [model |-> self.model,
          messages |-> optional_system(system_prompt) \o messages,
          max_tokens |-> max_tokens],
         try_result(<<"G","r","o","k">>, chat_text(o)))

DeepseekAPIClient_generate_response(self, prompt, system_prompt, max_tokens, o) ==
    call(self.api_endpoint, bearer_headers(self),
         [model |-> self.model,
          messages |-> optional_system(system_prompt) \o <<user_message(prompt)>>,
          max_tokens |-> max_tokens],
         try_result(<<"D","e","e","p","s","e","e","k">>, chat_text(o)))

DeepseekAPIClient_generate_response_with_history(self, messages, system_prompt, max_tokens, o) ==
    call(self.api_endpoint, bearer_headers(self),
         [model |-> self.model,
          messages |-> optional_system(system_prompt) \o messages,
          max_tokens |-> max_tokens],
         try_result(<<"D","e","e","p","s","e","e","k">>, chat_text(o)))

\* A call of a client method, as its caller sees it: the method, its
\* arguments, the HTTP request it posted and the object it returned (reply).
client_call(method, prompt, messages, system_prompt, max_tokens, posted) ==
    [request |-> [method |-> method, prompt |-> prompt, messages |-> messages,
                  system_prompt |-> system_prompt, max_tokens |-> max_tokens,
                  http |-> posted.request, reply |-> posted.value],
     value |-> posted.value]

\* Dispatch on the client's class
post_generate_response(self, prompt, system_prompt, max_tokens, o) ==
    CASE self.cls = "ClaudeAPIClient" ->
            ClaudeAPIClient_generate_response(self, prompt, system_prompt, max_tokens, o)
      [] self.cls = "OpenAIAPIClient" ->
            OpenAIAPIClient_generate_response(self, prompt, system_prompt, max_tokens, o)
      [] self.cls = "GeminiAPIClient" ->
            GeminiAPIClient_generate_response(self, prompt, system_prompt, max_tokens, o)
      [] self.cls = "HuggingFaceAPIClient" ->
            HuggingFaceAPIClient_generate_response(self, prompt, system_prompt, max_tokens, o)
      [] self.cls = "GrokAPIClient" ->
            GrokAPIClient_generate_response(self, prompt, system_prompt, max_tokens, o)
      [] OTHER ->
            DeepseekAPIClient_generate_response(self, prompt, system_prompt, max_tokens, o)

post_generate_response_with_history(self, messages, system_prompt, max_tokens, o) ==
    CASE self.cls = "ClaudeAPIClient" ->
            ClaudeAPIClient_generate_response_with_history(self, messages, system_prompt, max_tokens, o)
      [] self.cls = "OpenAIAPIClient" ->
            OpenAIAPIClient_generate_response_with_history(self, messages, system_prompt, max_tokens, o)
      [] self.cls = "GeminiAPIClient" ->
            GeminiAPIClient_generate_response_with_history(self, messages, system_prompt, max_tokens, o)
      [] self.cls = "HuggingFaceAPIClient" ->
            HuggingFaceAPIClient_generate_response_with_history(self, messages, system_prompt, max_tokens, o)
      [] self.cls = "GrokAPIClient" ->
            GrokAPIClient_generate_response_with_history(self, messages, system_prompt, max_tokens, o)
      [] OTHER ->
            DeepseekAPIClient_generate_response_with_history(self, messages, system_prompt, max_tokens, o)

generate_response(self, prompt, system_prompt, max_tokens, o) ==
    client_call("generate_response", prompt, <<>>, system_prompt, max_tokens,
                post_generate_response(self, prompt, system_prompt, max_tokens, o))

generate_response_with_history(self, messages, system_prompt, max_tokens, o) ==
    client_call("generate_response_with_history", <<>>, messages, system_prompt,
                max_tokens,
                post_generate_response_with_history(self, messages, system_prompt,
                                                    max_tokens, o))

----------------------------------------------------------------------------
(* Construction of a client: the API key and the model come from the       *)
(* argument and the process environment, after load_dotenv has added the   *)
(* variables of the .env file that the environment does not define.        *)

EnvVars ==
    {"CLAUDE_API_KEY", "ANTHROPIC_API_KEY", "OPENAI_API_KEY", "GEMINI_API_KEY",
     "HUGGINGFACE_API_KEY", "GROK_API_KEY", "DEEPSEEK_API_KEY",
     "CLAUDE_MODEL", "OPENAI_MODEL", "GEMINI_MODEL", "HUGGINGFACE_MODEL",
     "GROK_MODEL", "DEEPSEEK_MODEL"}

\* load_dotenv(dotenv_path=env_path): a variable already in os.environ is kept
load_dotenv(env, file) ==
    [n \in EnvVars |-> IF env[n] = None THEN file[n] ELSE env[n]]

\* os.getenv(name, default)
getenv_default(env, name, default) ==
    IF env[name] = None THEN default ELSE env[name].v

\* What a call gives its caller: a value returned or an exception raised.
NoException == [type |-> "", msg |-> <<>>]
Return(v) == [kind |-> "return", value |-> v, exc |-> NoException]
Raise(type, msg) == [kind |-> "raise", value |-> None, exc |-> [type |-> type, msg |-> msg]]

key_not_found(label, variable) ==
    label \o <<" ","A","P","I"," ","k","e","y"," ","n","o","t"," ","f","o","u","n","d","."," ","P","l","e","a","s","e"," ","p","r","o","v","i","d","e"," ","a","n"," ","A","P","I"," ","k","e","y"," ","o","r"," ","s","e","t"," ","t","h","e"," ">>
          \o variable \o <<" ","e","n","v","i","r","o","n","m","e","n","t"," ","v","a","r","i","a","b","l","e"," ","i","n"," ","y","o","u","r"," ",".","e","n","v"," ","f","i","l","e",".">>

\* The common end of the six __init__ methods: key is the key resolved from
\* the argument and the environment.
new_client(cls, key, label, variable, model, api_endpoint) ==
    IF ~Truthy(key) THEN Raise("ValueError", key_not_found(label, variable))
    ELSE Return([cls |-> cls, api_key |-> key, model |-> model,
                 api_endpoint |-> api_endpoint])

\* Each __init__ gives [environ, result]: os.environ as load_dotenv left it,
\* and the client constructed or the exception raised.

\* ClaudeAPIClient.__init__ reading ANTHROPIC_API_KEY before CLAUDE_API_KEY
ClaudeAPIClient_init_anthropic_first(api_key, os_environ, file) ==
    LET env == load_dotenv(os_environ, file)
    IN  [environ |-> env, result |->
            new_client("ClaudeAPIClient",
                IF ~Truthy(api_key)
                THEN Or(env["ANTHROPIC_API_KEY"], env["CLAUDE_API_KEY"]) ELSE api_key,
                <<"C","l","a","u","d","e">>, <<"C","L","A","U","D","E","_","A","P","I","_","K","E","Y">>,
                getenv_default(env, "CLAUDE_MODEL", <<"c","l","a","u","d","e","-","3","-","s","o","n","n","e","t","-","2","0","2","4","0","2","2","9">>),
                <<"h","t","t","p","s",":","/","/","a","p","i",".","a","n","t","h","r","o","p","i","c",".","c","o","m","/","v","1","/","m","e","s","s","a","g","e","s">>)]

ClaudeAPIClient_init(api_key, os_environ, file) ==
    LET env == load_dotenv(os_environ, file)
    IN  [environ |-> env, result |->
            new_client("ClaudeAPIClient",
                IF ~Truthy(api_key)
                THEN Or(env["CLAUDE_API_KEY"], env["ANTHROPIC_API_KEY"]) ELSE api_key,
                <<"C","l","a","u","d","e">>, <<"C","L","A","U","D","E","_","A","P","I","_","K","E","Y">>,
                getenv_default(env, "CLAUDE_MODEL", <<"c","l","a","u","d","e","-","3","-","s","o","n","n","e","t","-","2","0","2","4","0","2","2","9">>),
                <<"h","t","t","p","s",":","/","/","a","p","i",".","a","n","t","h","r","o","p","i","c",".","c","o","m","/","v","1","/","m","e","s","s","a","g","e","s">>)]

OpenAIAPIClient_init(api_key, os_environ, file) ==
    LET env == load_dotenv(os_environ, file)
    IN  [environ |-> env, result |->
            new_client("OpenAIAPIClient",
                IF ~Truthy(api_key) THEN env["OPENAI_API_KEY"] ELSE api_key,
                <<"O","p","e","n","A","I">>, <<"O","P","E","N","A","I","_","A","P","I","_","K","E","Y">>,
                getenv_default(env, "OPENAI_MODEL", <<"g","p","t","-","4","o">>),
                <<"h","t","t","p","s",":","/","/","a","p","i",".","o","p","e","n","a","i",".","c","o","m","/","v","1","/","c","h","a","t","/","c","o","m","p","l","e","t","i","o","n","s">>)]

GeminiAPIClient_init(api_key, os_environ, file) ==
    LET env == load_dotenv(os_environ, file)
    IN  [environ |-> env, result |->
            new_client("GeminiAPIClient",
                IF ~Truthy(api_key) THEN env["GEMINI_API_KEY"] ELSE api_key,
                <<"G","e","m","i","n","i">>, <<"G","E","M","I","N","I","_","A","P","I","_","K","E","Y">>,
                getenv_default(env, "GEMINI_MODEL", <<"g","e","m","i","n","i","-","1",".","5","-","p","r","o","-","l","a","t","e","s","t">>),
                <<"h","t","t","p","s",":","/","/","g","e","n","e","r","a","t","i","v","e","l","a","n","g","u","a","g","e",".","g","o","o","g","l","e","a","p","i","s",".","c","o","m","/","v","1","b","e","t","a","/","m","o","d","e","l","s">>)]

HuggingFaceAPIClient_init(api_key, os_environ, file) ==
    LET env == load_dotenv(os_environ, file)
    IN  [environ |-> env, result |->
            new_client("HuggingFaceAPIClient",
                IF ~Truthy(api_key) THEN env["HUGGINGFACE_API_KEY"] ELSE api_key,
                <<"H","u","g","g","i","n","g"," ","F","a","c","e">>, <<"H","U","G","G","I","N","G","F","A","C","E","_","A","P","I","_","K","E","Y">>,
                getenv_default(env, "HUGGINGFACE_MODEL", <<"m","i","s","t","r","a","l","a","i","/","M","i","x","t","r","a","l","-","8","x","7","B","-","I","n","s","t","r","u","c","t","-","v","0",".","1">>),
                <<"h","t","t","p","s",":","/","/","a","p","i","-","i","n","f","e","r","e","n","c","e",".","h","u","g","g","i","n","g","f","a","c","e",".","c","o","/","m","o","d","e","l","s">>)]

GrokAPIClient_init(api_key, os_environ, file) ==
    LET env == load_dotenv(os_environ, file)
    IN  [environ |-> env, result |->
            new_client("GrokAPIClient",
                IF ~Truthy(api_key) THEN env["GROK_API_KEY"] ELSE api_key,
                <<"G","r","o","k">>, <<"G","R","O","K","_","A","P","I","_","K","E","Y">>,
                getenv_default(env, "GROK_MODEL", <<"g","r","o","k","-","1">>),
                <<"h","t","t","p","s",":","/","/","a","p","i",".","g","r","o","k",".","x","/","v","1","/","c","h","a","t","/","c","o","m","p","l","e","t","i","o","n","s">>)]

DeepseekAPIClient_init(api_key, os_environ, file) ==
    LET env == load_dotenv(os_environ, file)
    IN  [environ |-> env, result |->
            new_client("DeepseekAPIClient",
                IF ~Truthy(api_key) THEN env["DEEPSEEK_API_KEY"] ELSE api_key,
                <<"D","e","e","p","s","e","e","k">>, <<"D","E","E","P","S","E","E","K","_","A","P","I","_","K","E","Y">>,
                getenv_default(env, "DEEPSEEK_MODEL", <<"d","e","e","p","s","e","e","k","-","c","o","d","e","r">>),
                <<"h","t","t","p","s",":","/","/","a","p","i",".","d","e","e","p","s","e","e","k",".","c","o","m","/","v","1","/","c","h","a","t","/","c","o","m","p","l","e","t","i","o","n","s">>)]

\* create_api_client comparing the name as given, without lower()
create_api_client_case_sensitive(provider, api_key, os_environ, file) ==
    LET p == provider
    IN  IF p = <<"c","l","a","u","d","e">> \/ p = <<"a","n","t","h","r","o","p","i","c">> THEN ClaudeAPIClient_init(api_key, os_environ, file)
        ELSE IF p = <<"o","p","e","n","a","i">> THEN OpenAIAPIClient_init(api_key, os_environ, file)
        ELSE IF p = <<"g","e","m","i","n","i">> \/ p = <<"g","o","o","g","l","e">> THEN GeminiAPIClient_init(api_key, os_environ, file)
        ELSE IF p = <<"h","u","g","g","i","n","g","f","a","c","e">> THEN HuggingFaceAPIClient_init(api_key, os_environ, file)
        ELSE IF p = <<"g","r","o","k">> THEN GrokAPIClient_init(api_key, os_environ, file)
        ELSE IF p = <<"d","e","e","p","s","e","e","k">> THEN DeepseekAPIClient_init(api_key, os_environ, file)
        ELSE [environ |-> os_environ,
              result |-> Raise("ValueError", <<"U","n","s","u","p","p","o","r","t","e","d"," ","p","r","o","v","i","d","e","r",":"," ">> \o p)]

\* api_clients.create_api_client
create_api_client(provider, api_key, os_environ, file) ==
    LET p == lower(provider)
    IN  IF p = <<"c","l","a","u","d","e">> \/ p = <<"a","n","t","h","r","o","p","i","c">> THEN ClaudeAPIClient_init(api_key, os_environ, file)
        ELSE IF p = <<"o","p","e","n","a","i">> THEN OpenAIAPIClient_init(api_key, os_environ, file)
        ELSE IF p = <<"g","e","m","i","n","i">> \/ p = <<"g","o","o","g","l","e">> THEN GeminiAPIClient_init(api_key, os_environ, file)
        ELSE IF p = <<"h","u","g","g","i","n","g","f","a","c","e">> THEN HuggingFaceAPIClient_init(api_key, os_environ, file)
        ELSE IF p = <<"g","r","o","k">> THEN GrokAPIClient_init(api_key, os_environ, file)
        ELSE IF p = <<"d","e","e","p","s","e","e","k">> THEN DeepseekAPIClient_init(api_key, os_environ, file)
        ELSE [environ |-> os_environ,
              result |-> Raise("ValueError", <<"U","n","s","u","p","p","o","r","t","e","d"," ","p","r","o","v","i","d","e","r",":"," ">> \o p)]

----------------------------------------------------------------------------
(* code_analyzer.CodeAnalyzer                                              *)
(*                                                                         *)
(* ast.parse is the interpreter's parser: the model holds what it gives    *)
(* for the snippets the model uses, as the nodes of the tree in ast.walk   *)
(* order (breadth first).  A node is [type, name, ctx, values]: name is a  *)
(* FunctionDef's or ClassDef's name or a Name's id, values the number of   *)
(* operands of a BoolOp.                                                   *)

Node(type) == [type |-> type, name |-> <<>>, ctx |-> "", values |-> 0]
Named(type, name, ctx) == [type |-> type, name |-> name, ctx |-> ctx, values |-> 0]
BoolOpNode(n) == [type |-> "BoolOp", name |-> <<>>, ctx |-> "", values |-> n]

Tree(nodes) == [kind |-> "tree", nodes |-> nodes, msg |-> <<>>]
ParseError(kind, msg) == [kind |-> kind, nodes |-> <<>>, msg |-> msg]

\* The depth of nesting beyond which the parser's conversion to a tree raises
\* RecursionError (the interpreter's limit, scaled to the model's snippets).
parser_depth_limit == 3

snippet_assign == <<"x"," ","="," ","1">>
snippet_bare_except == <<"t","r","y",":","\n"," "," ","X"," ","="," ","1"," ","o","r"," ","2","\n","e","x","c","e","p","t",":","\n"," "," ","p","a","s","s">>
snippet_naming == <<"m","y","V","a","r"," ","="," ","1","\n","d","e","f"," ","B","a","d","(","a","=","[","]",")",":","\n"," "," ","i","f"," ","a"," ","a","n","d"," ","a",":","\n"," "," "," "," ","p","a","s","s">>
snippet_invalid == <<"d","e","f"," ","f","(",":">>

\* a chain of n unary minus signs applied to 1: "-" * n + "1"
minus_chain(n) == [i \in 1..(n + 1) |-> IF i <= n THEN "-" ELSE "1"]

is_minus_chain(code) == code # <<>> /\ code = minus_chain(Len(code) - 1)

RECURSIVE unary_nodes(_)
unary_nodes(n) ==
    IF n = 0 THEN <<Node("Constant")>>
    ELSE <<Node("UnaryOp"), Node("USub")>> \o unary_nodes(n - 1)

\* An ExceptHandler: values is the number of types it names (none: bare)
HandlerNode(n) == [type |-> "ExceptHandler", name |-> <<>>, ctx |-> "", values |-> n]

\* Statements, each with what ast.parse gives for it: the nodes of its
\* subtree level by level (the statement, its children, their children), or
\* the error the parser raises on it.
Statements ==
   {
    \* an assignment of a string that reads like a handler
    [text |-> <<"x"," ","="," ","\"","e","x","c","e","p","t",":","\"">>,
     kind |-> "tree",
     levels |->
         <<<<Node("Assign")>>,
           <<Named("Name", <<"x">>, "Store"), Node("Constant")>>,
           <<Node("Store")>>>>],
    \* a try statement whose handler names no type
    [text |-> <<"t","r","y",":","\n"," "," ","p","a","s","s","\n","e","x","c","e","p","t",":","\n"," "," ","p","a","s","s">>,
     kind |-> "tree",
     levels |->
         <<<<Node("Try")>>,
           <<Node("Pass"), HandlerNode(0)>>,
           <<Node("Pass")>>>>],
    \* a try statement whose handler names a type
    [text |-> <<"t","r","y",":","\n"," "," ","p","a","s","s","\n","e","x","c","e","p","t"," ","E",":","\n"," "," ","p","a","s","s">>,
     kind |-> "tree",
     levels |->
         <<<<Node("Try")>>,
           <<Node("Pass"), HandlerNode(1)>>,
           <<Named("Name", <<"E">>, "Load"), Node("Pass")>>,
           <<Node("Load")>>>>],
    \* three nested branching statements, no chain
    [text |-> <<"f","o","r"," ","i"," ","i","n"," ","y",":","\n"," "," ","w","h","i","l","e"," ","a",":","\n"," "," "," "," ","i","f"," ","b",":","\n"," "," "," "," "," "," ","p","a","s","s">>,
     kind |-> "tree",
     levels |->
         <<<<Node("For")>>,
           <<Named("Name", <<"i">>, "Store"), Named("Name", <<"y">>, "Load"), Node("While")>>,
           <<Node("Store"), Node("Load"), Named("Name", <<"a">>, "Load"), Node("If")>>,
           <<Node("Load"), Named("Name", <<"b">>, "Load"), Node("Pass")>>,
           <<Node("Load")>>>>],
    \* a loop on a chain of three operands, one of them a chain of two
    [text |-> <<"w","h","i","l","e"," ","a"," ","o","r"," ","b"," ","o","r"," ","c"," ","a","n","d"," ","d",":","\n"," "," ","p","a","s","s">>,
     kind |-> "tree",
     levels |->
         <<<<Node("While")>>,
           <<BoolOpNode(3), Node("Pass")>>,
           <<Node("Or"), Named("Name", <<"a">>, "Load"), Named("Name", <<"b">>, "Load"), BoolOpNode(2)>>,
           <<Node("Load"), Node("Load"), Node("And"), Named("Name", <<"c">>, "Load"), Named("Name", <<"d">>, "Load")>>,
           <<Node("Load"), Node("Load")>>>>],
    \* a class with a method that defines a function
    [text |-> <<"c","l","a","s","s"," ","C",":","\n"," "," ","d","e","f"," ","m","(","s","e","l","f",")",":","\n"," "," "," "," ","d","e","f"," ","g","(",")",":","\n"," "," "," "," "," "," ","p","a","s","s">>,
     kind |-> "tree",
     levels |->
         <<<<Named("ClassDef", <<"C">>, "")>>,
           <<Named("FunctionDef", <<"m">>, "")>>,
           <<Node("arguments"), Named("FunctionDef", <<"g">>, "")>>,
           <<Node("arg"), Node("arguments"), Node("Pass")>>>>],
    \* a coroutine function
    [text |-> <<"a","s","y","n","c"," ","d","e","f"," ","h","(",")",":","\n"," "," ","p","a","s","s">>,
     kind |-> "tree",
     levels |->
         <<<<Named("AsyncFunctionDef", <<"h">>, "")>>,
           <<Node("arguments"), Node("Pass")>>>>],
    \* a definition that does not parse
    [text |-> <<"d","e","f"," ","f","(",":">>,
     kind |-> "SyntaxError",
     levels |-> <<>>],
    \* an expression nested deeper than the parser converts
    [text |-> minus_chain(parser_depth_limit + 1),
     kind |-> "RecursionError",
     levels |-> <<>>]}

NotAStatement == [text |-> <<>>, kind |-> "unknown", levels |-> <<>>]

\* The statements a text is made of when it is statements of the set above,
\* one after the other on lines of their own
RECURSIVE program_statements(_)
program_statements(code) ==
    LET first == {s \in Statements :
                     /\ StartsAt(code, 1, s.text)
                     /\ (Len(code) = Len(s.text) \/ code[Len(s.text) + 1] = "\n")}
    IN  IF first = {} THEN <<NotAStatement>>
        ELSE LET s == CHOOSE x \in first : TRUE
             IN  IF Len(code) = Len(s.text) THEN <<s>>
                 ELSE <<s>> \o program_statements(SubSeq(code, Len(s.text) + 2, Len(code)))

is_program(code) ==
    LET stmts == program_statements(code)
    IN  \A n \in 1..Len(stmts) : stmts[n].kind # "unknown"

\* str(n) for a line number
decimal_digit(n) ==
    CASE n = 0 -> "0" [] n = 1 -> "1" [] n = 2 -> "2" [] n = 3 -> "3" [] n = 4 -> "4"
      [] n = 5 -> "5" [] n = 6 -> "6" [] n = 7 -> "7" [] n = 8 -> "8" [] OTHER -> "9"
decimal(n) ==
    IF n < 10 THEN <<decimal_digit(n)>>
    ELSE <<decimal_digit(n \div 10), decimal_digit(n % 10)>>

\* The line the n-th statement begins on
RECURSIVE first_line(_, _)
first_line(stmts, n) ==
    IF n = 1 THEN 1
    ELSE first_line(stmts, n - 1) + Len(split_lines(stmts[n - 1].text))

\* The nodes at depth d of the statements from the n-th on, in ast.walk order
RECURSIVE level_nodes(_, _, _)
level_nodes(stmts, d, n) ==
    IF n > Len(stmts) THEN <<>>
    ELSE (IF d <= Len(stmts[n].levels) THEN stmts[n].levels[d] ELSE <<>>)
         \o level_nodes(stmts, d, n + 1)

\* ast.walk is breadth first: the Module, then the statements, then the
\* children of the statements, and so on
RECURSIVE walk_from(_, _)
walk_from(stmts, d) ==
    IF \A n \in 1..Len(stmts) : d > Len(stmts[n].levels) THEN <<>>
    ELSE level_nodes(stmts, d, 1) \o walk_from(stmts, d + 1)

\* ast.parse of a text made of statements: the first syntax error, else the
\* failure of the conversion to a tree, else the tree
parse_program(stmts) ==
    LET invalid == {n \in 1..Len(stmts) : stmts[n].kind = "SyntaxError"}
    IN  IF invalid # {}
        THEN ParseError("SyntaxError",
                 <<"i","n","v","a","l","i","d"," ","s","y","n","t","a","x"," ","(","<","u","n","k","n","o","w","n",">",","," ","l","i","n","e"," ">>
                 \o decimal(first_line(stmts, CHOOSE n \in invalid : \A m \in invalid : n <= m))
                 \o <<")">>)
        ELSE IF \E n \in 1..Len(stmts) : stmts[n].kind = "RecursionError"
        THEN ParseError("RecursionError",
                 <<"m","a","x","i","m","u","m"," ","r","e","c","u","r","s","i","o","n"," ","d","e","p","t","h"," ","e","x","c","e","e","d","e","d"," ","d","u","r","i","n","g"," ","a","s","t"," ","c","o","n","s","t","r","u","c","t","i","o","n">>)
        ELSE Tree(<<Node("Module")>> \o walk_from(stmts, 1))

ast_parse(code) ==
    CASE code = snippet_assign ->
            Tree(<<Node("Module"), Node("Assign"), Named("Name", <<"x">>, "Store"),
                   Node("Constant"), Node("Store")>>)
      [] code = snippet_bare_except ->
            Tree(<<Node("Module"), Node("Try"), Node("Assign"),
                   Node("ExceptHandler"), Named("Name", <<"X">>, "Store"),
                   BoolOpNode(2), Node("Pass"), Node("Store"), Node("Or"),
                   Node("Constant"), Node("Constant")>>)
      [] code = snippet_naming ->
            Tree(<<Node("Module"), Node("Assign"), Named("FunctionDef", <<"B","a","d">>, ""),
                   Named("Name", <<"m","y","V","a","r">>, "Store"), Node("Constant"),
                   Node("arguments"), Node("If"), Node("Store"), Node("arg"),
                   Node("List"), BoolOpNode(2), Node("Pass"), Node("Load"),
                   Node("And"), Named("Name", <<"a">>, "Load"),
                   Named("Name", <<"a">>, "Load"), Node("Load"), Node("Load")>>)
      [] is_minus_chain(code) ->
            IF Len(code) - 1 > parser_depth_limit
            THEN ParseError("RecursionError",
                     <<"m","a","x","i","m","u","m"," ","r","e","c","u","r","s","i","o","n"," ","d","e","p","t","h"," ","e","x","c","e","e","d","e","d"," ","d","u","r","i","n","g"," ","a","s","t"," ","c","o","n","s","t","r","u","c","t","i","o","n">>)
            ELSE Tree(<<Node("Module"), Node("Expr")>> \o unary_nodes(Len(code) - 1))
      [] is_program(code) -> parse_program(program_statements(code))
      [] OTHER -> ParseError("SyntaxError", <<"i","n","v","a","l","i","d"," ","s","y","n","t","a","x"," ","(","<","u","n","k","n","o","w","n",">",","," ","l","i","n","e"," ","1",")">>)

lowercase == {"a","b","c","d","e","f","g","h","i","j","k","l","m","n","o","p","q","r","s","t","u","v","w","x","y","z"}
uppercase == {"A","B","C","D","E","F","G","H","I","J","K","L","M","N","O","P","Q","R","S","T","U","V","W","X","Y","Z"}
digits == {"0","1","2","3","4","5","6","7","8","9"}

\* \w and \s of the re module
word_char(c) == c \in lowercase \cup uppercase \cup digits \cup {"_"}
all_in(s, lo, hi, P(_)) == \A k \in lo..hi : P(s[k])
not_newline(c) == c # "\n"

\* As bare_except, were the pattern anchored to the beginning of a line
bare_except_anchored(code) ==
    \E i \in 1..Len(code) :
        /\ i = 1 \/ code[i - 1] = "\n"
        /\ StartsAt(code, i, <<"e","x","c","e","p","t">>)
        /\ \E j \in (i + 6)..Len(code) :
              /\ code[j] = ":"
              /\ all_in(code, i + 6, j - 1, isspace)

\* re.compile(r'except\s*:').search(code)
bare_except(code) ==
    \E i \in 1..Len(code) :
        /\ StartsAt(code, i, <<"e","x","c","e","p","t">>)
        /\ \E j \in (i + 6)..Len(code) :
              /\ code[j] = ":"
              /\ all_in(code, i + 6, j - 1, isspace)

\* re.compile(r'def\s+\w+\s*\(.*=\s*(\[\]|\{\}|\(\)).*\)').search(code)
mutable_defaults(code) ==
    \E i \in 1..Len(code) :
        /\ StartsAt(code, i, <<"d","e","f">>)
        /\ \E a \in (i + 4)..Len(code) :
            /\ all_in(code, i + 3, a - 1, isspace)
            /\ \E b \in (a + 1)..Len(code) :
                /\ all_in(code, a, b - 1, word_char)
                /\ \E c \in b..Len(code) :
                    /\ all_in(code, b, c - 1, isspace)
                    /\ code[c] = "("
                    /\ \E e \in (c + 1)..Len(code) :
                        /\ all_in(code, c + 1, e - 1, not_newline)
                        /\ code[e] = "="
                        /\ \E g \in (e + 1)..Len(code) :
                            /\ all_in(code, e + 1, g - 1, isspace)
                            /\ \/ StartsAt(code, g, <<"[","]">>)
                               \/ StartsAt(code, g, <<"{","}">>)
                               \/ StartsAt(code, g, <<"(",")">>)
                            /\ \E z \in (g + 2)..Len(code) :
                                /\ all_in(code, g + 2, z - 1, not_newline)
                                /\ code[z] = ")"

\* len(re.compile(r'^(?!\s*(def|class)).*=.*$', re.MULTILINE).findall(code)):
\* the lines holding "=" that do not begin, after blanks, with def or class
starts_def_or_class(line) ==
    \E k \in 0..Len(line) :
        /\ all_in(line, 1, k, isspace)
        /\ (StartsAt(line, k + 1, <<"d","e","f">>) \/ StartsAt(line, k + 1, <<"c","l","a","s","s">>))

global_vars(code) ==
    LET lines == split_lines(code)
    IN  Cardinality({n \in 1..Len(lines) :
            ~starts_def_or_class(lines[n]) /\ Contains(lines[n], <<"=">>)})

max_global_vars == 3

_check_anti_patterns(code) ==
    (IF bare_except(code)
     THEN <<<<"U","s","e","s"," ","b","a","r","e"," ","'","e","x","c","e","p","t",":","'"," ","w","i","t","h","o","u","t"," ","s","p","e","c","i","f","y","i","n","g"," ","e","x","c","e","p","t","i","o","n","s">>>> ELSE <<>>)
    \o (IF mutable_defaults(code)
        THEN <<<<"U","s","e","s"," ","m","u","t","a","b","l","e"," ","d","e","f","a","u","l","t"," ","a","r","g","u","m","e","n","t"," ","(","l","i","s","t",","," ","d","i","c","t",","," ","e","t","c",".",")">>>> ELSE <<>>)
    \o (IF global_vars(code) > max_global_vars
        THEN <<<<"P","o","s","s","i","b","l","e"," ","e","x","c","e","s","s","i","v","e"," ","u","s","e"," ","o","f"," ","g","l","o","b","a","l"," ","v","a","r","i","a","b","l","e","s">>>> ELSE <<>>)

\* re.match(r'^[a-z_][a-z0-9_]*$', name)
snake_case(name) ==
    /\ name # <<>>
    /\ name[1] \in lowercase \cup {"_"}
    /\ \A k \in 2..Len(name) : name[k] \in lowercase \cup digits \cup {"_"}

\* re.match(r'^[A-Z][a-zA-Z0-9]*$', name)
camel_case(name) ==
    /\ name # <<>>
    /\ name[1] \in uppercase
    /\ \A k \in 2..Len(name) : name[k] \in lowercase \cup uppercase \cup digits

\* name.isupper()
isupper(name) ==
    /\ \E k \in 1..Len(name) : name[k] \in uppercase
    /\ \A k \in 1..Len(name) : name[k] \notin lowercase

naming_issue(node) ==
    (IF node.type = "Name" /\ node.ctx = "Store"
        /\ ~snake_case(node.name) /\ ~isupper(node.name)
     THEN <<<<"V","a","r","i","a","b","l","e"," ","'">> \o node.name \o <<"'"," ","d","o","e","s"," ","n","o","t"," ","f","o","l","l","o","w"," ","s","n","a","k","e","_","c","a","s","e"," ","c","o","n","v","e","n","t","i","o","n">>>>
     ELSE <<>>)
    \o (IF node.type = "FunctionDef" /\ ~snake_case(node.name)
        THEN <<<<"F","u","n","c","t","i","o","n"," ","'">> \o node.name \o <<"'"," ","d","o","e","s"," ","n","o","t"," ","f","o","l","l","o","w"," ","s","n","a","k","e","_","c","a","s","e"," ","c","o","n","v","e","n","t","i","o","n">>>>
        ELSE <<>>)
    \o (IF node.type = "ClassDef" /\ ~camel_case(node.name)
        THEN <<<<"C","l","a","s","s"," ","'">> \o node.name \o <<"'"," ","d","o","e","s"," ","n","o","t"," ","f","o","l","l","o","w"," ","C","a","m","e","l","C","a","s","e"," ","c","o","n","v","e","n","t","i","o","n">>>>
        ELSE <<>>)

RECURSIVE _check_variable_naming(_)
_check_variable_naming(nodes) ==
    IF nodes = <<>> THEN <<>>
    ELSE naming_issue(nodes[1]) \o _check_variable_naming(Tail(nodes))

RECURSIVE _calculate_complexity(_)
_calculate_complexity(nodes) ==
    IF nodes = <<>> THEN 0
    ELSE (IF nodes[1].type \in {"If", "For", "While", "Try"} THEN 1
          ELSE IF nodes[1].type = "BoolOp" THEN nodes[1].values - 1
          ELSE 0)
         + _calculate_complexity(Tail(nodes))

medium_complexity == 5
high_complexity == 10

\* As complexity_bucket, were the boundaries themselves in the lower bucket
complexity_bucket_inclusive(complexity) ==
    IF complexity <= medium_complexity THEN <<"L","o","w">>
    ELSE IF complexity <= high_complexity THEN <<"M","e","d","i","u","m">>
    ELSE <<"H","i","g","h">>

complexity_bucket(complexity) ==
    IF complexity < medium_complexity THEN <<"L","o","w">>
    ELSE IF complexity < high_complexity THEN <<"M","e","d","i","u","m">>
    ELSE <<"H","i","g","h">>

count_nodes(nodes, type) == Cardinality({n \in 1..Len(nodes) : nodes[n].type = type})

\* CodeAnalyzer.analyze: the result dictionary returned or the exception that
\* ast.parse raised and analyze does not catch. parsed is what ast.parse(code)
\* gave, line_count is len(code.split('\n')).
analyze_parsed(code, parsed, line_count) ==
        IF parsed.kind = "SyntaxError"
        THEN Return([issues |-> <<<<"S","y","n","t","a","x"," ","e","r","r","o","r",":"," ">> \o parsed.msg>>,
                     complexity |-> <<"U","n","k","n","o","w","n">>, line_count |-> line_count,
                     function_count |-> 0, class_count |-> 0])
        ELSE IF parsed.kind # "tree" THEN Raise(parsed.kind, parsed.msg)
        ELSE Return([issues |-> _check_anti_patterns(code)
                                    \o _check_variable_naming(parsed.nodes),
                     complexity |-> complexity_bucket(_calculate_complexity(parsed.nodes)),
                     line_count |-> line_count,
                     function_count |-> count_nodes(parsed.nodes, "FunctionDef"),
                     class_count |-> count_nodes(parsed.nodes, "ClassDef")])

analyze(code) == analyze_parsed(code, ast_parse(code), Len(split_lines(code)))

----------------------------------------------------------------------------
(* Inputs: the environment, the queries and snippets a caller passes, *)
(* and the answers a vendor gives                                     *)

unset == [n \in EnvVars |-> None]

test_key == Str(<<"s","k","-","1">>)

\* One client of each class, built from an explicit key
Clients ==
    {ClaudeAPIClient_init(test_key, unset, unset).result.value,
     OpenAIAPIClient_init(test_key, unset, unset).result.value,
     GeminiAPIClient_init(test_key, unset, unset).result.value,
     HuggingFaceAPIClient_init(test_key, unset, unset).result.value,
     GrokAPIClient_init(test_key, unset, unset).result.value,
     DeepseekAPIClient_init(test_key, unset, unset).result.value}

q_task == <<"W","r","i","t","e"," ","c","o","d","e">>
q_review == <<"R","e","v","i","e","w"," ","t","h","i","s"," ","c","o","d","e","\n",bq,bq,bq,"p","y","t","h","o","n","\n","x"," ","="," ","1","\n",bq,bq,bq>>
q_review_no_code == <<"a","n","a","l","y","z","e"," ","t","h","i","s"," ","c","o","d","e">>
q_review_deep == <<"r","e","v","i","e","w"," ","t","h","i","s"," ","c","o","d","e","\n",bq,bq,bq,"\n">> \o minus_chain(parser_depth_limit + 1) \o <<"\n",bq,bq,bq>>
q_task_and_review == <<"w","r","i","t","e"," ","c","o","d","e",","," ","r","e","v","i","e","w"," ","t","h","i","s"," ","c","o","d","e","\n",bq,bq,bq,"\n","x"," ","="," ","1","\n",bq,bq,bq>>
q_general == <<"h","i">>

Queries ==
    {q_task, q_task_and_review, q_review, q_review_no_code, q_review_deep, q_general}

Snippets == {snippet_naming, snippet_invalid, minus_chain(parser_depth_limit + 1)}

reply_text == <<"A","u","t","o","m","a","t","i","o","n">>

\* A reply that holds a fenced block
reply_code == <<"H","e","r","e",":","\n",bq,bq,bq,"p","y","t","h","o","n","\n","x"," ","="," ","1","\n",bq,bq,bq>>

\* The body each vendor documents, holding text where the client reads it
well_formed_body(cls, text) ==
    CASE cls = "ClaudeAPIClient" ->
            JObj(<<"c","o","n","t","e","n","t">> :> JArr(<<JObj(<<"t","e","x","t">> :> text)>>))
      [] cls = "GeminiAPIClient" ->
            JObj(<<"c","a","n","d","i","d","a","t","e","s">> :> JArr(<<JObj(<<"c","o","n","t","e","n","t">> :>
                JObj(<<"p","a","r","t","s">> :> JArr(<<JObj(<<"t","e","x","t">> :> text)>>)))>>))
      [] cls = "HuggingFaceAPIClient" ->
            JArr(<<JObj(<<"g","e","n","e","r","a","t","e","d","_","t","e","x","t">> :> text)>>)
      [] OTHER ->
            JObj(<<"c","h","o","i","c","e","s">> :> JArr(<<JObj(<<"m","e","s","s","a","g","e">> :>
                JObj(<<"c","o","n","t","e","n","t">> :> text))>>))

Exception(msg) == [kind |-> "exception", msg |-> msg, status |-> 0, body |-> JNull]
Response(status, body) == [kind |-> "response", msg |-> <<>>, status |-> status, body |-> body]

error_body == JObj(<<"e","r","r","o","r">> :> JStr(<<"i","n","v","a","l","i","d">>))

Classes ==
    {"ClaudeAPIClient", "OpenAIAPIClient", "GeminiAPIClient",
     "HuggingFaceAPIClient", "GrokAPIClient", "DeepseekAPIClient"}

\* The answers a vendor gives the orchestrator's client
Outcomes(cls) ==
    {Exception(<<"C","o","n","n","e","c","t","i","o","n"," ","r","e","f","u","s","e","d">>),
     Response(200, well_formed_body(cls, JStr(reply_text))),
     Response(200, well_formed_body(cls, JNull))}

\* The answers any endpoint can give a client: the above, and bodies that
\* are no JSON, hold an error, or hold nothing
AllOutcomes ==
    UNION {Outcomes(cls) : cls \in Classes}
    \cup {Response(401, error_body), Response(500, NotJson), Response(200, NotJson),
          Response(200, error_body), Response(200, JArr(<<>>)),
          Response(200, JArr(<<JObj(<<>>)>>))}


----------------------------------------------------------------------------
(* assistant.ProgrammingAssistant                                          *)
(*                                                                         *)
(* The fixed wording of the prompts is cut to its opening words; what the  *)
(* f-strings embed is kept whole.                                          *)

_create_system_prompt_for_programming ==
    Str(<<"Y","o","u"," ","a","r","e"," ","a","n"," ","A","I"," ","P","r","o","g","r","a","m","m","i","n","g"," ","A","s","s","i","s","t","a","n","t"," ","d","e","s","i","g","n","e","d"," ","t","o"," ","h","e","l","p"," ","w","i","t","h"," ","P","y","t","h","o","n"," ","p","r","o","g","r","a","m","m","i","n","g"," ","t","a","s","k","s",".">>)
_create_system_prompt_for_code_review ==
    Str(<<"Y","o","u"," ","a","r","e"," ","a","n"," ","A","I"," ","P","r","o","g","r","a","m","m","i","n","g"," ","A","s","s","i","s","t","a","n","t"," ","s","p","e","c","i","a","l","i","z","i","n","g"," ","i","n"," ","P","y","t","h","o","n"," ","c","o","d","e"," ","r","e","v","i","e","w",".">>)
_create_system_prompt_for_code_generation ==
    Str(<<"Y","o","u"," ","a","r","e"," ","a","n"," ","A","I"," ","P","r","o","g","r","a","m","m","i","n","g"," ","A","s","s","i","s","t","a","n","t"," ","s","p","e","c","i","a","l","i","z","i","n","g"," ","i","n"," ","P","y","t","h","o","n"," ","c","o","d","e"," ","g","e","n","e","r","a","t","i","o","n",".">>)
_create_system_prompt_for_task_conversion ==
    Str(<<"Y","o","u"," ","a","r","e"," ","a","n"," ","A","I"," ","P","r","o","g","r","a","m","m","i","n","g"," ","A","s","s","i","s","t","a","n","t"," ","s","p","e","c","i","a","l","i","z","i","n","g"," ","i","n"," ","c","o","n","v","e","r","t","i","n","g"," ","n","a","t","u","r","a","l"," ","l","a","n","g","u","a","g","e"," ","t","a","s","k">>)

\* self.task_templates, in the order of the dictionary
task_templates ==
    << <<<<"f","i","l","e","_","o","p","e","r","a","t","i","o","n","s">>, <<"W","o","r","k","i","n","g"," ","w","i","t","h"," ","f","i","l","e","s"," ","(","r","e","a","d","/","w","r","i","t","e","/","m","o","d","i","f","y",")">>>>,
       <<<<"d","a","t","a","_","p","r","o","c","e","s","s","i","n","g">>, <<"P","r","o","c","e","s","s","i","n","g"," ","d","a","t","a"," ","(","f","i","l","t","e","r","i","n","g","/","t","r","a","n","s","f","o","r","m","i","n","g","/","a","n","a","l","y","z","i","n","g",")">>>>,
       <<<<"w","e","b","_","i","n","t","e","r","a","c","t","i","o","n">>, <<"W","e","b"," ","i","n","t","e","r","a","c","t","i","o","n","s"," ","(","s","c","r","a","p","i","n","g","/","A","P","I"," ","c","a","l","l","s","/","r","e","q","u","e","s","t","s",")">>>>,
       <<<<"u","i","_","c","r","e","a","t","i","o","n">>, <<"C","r","e","a","t","i","n","g"," ","u","s","e","r"," ","i","n","t","e","r","f","a","c","e","s">>>>,
       <<<<"a","u","t","o","m","a","t","i","o","n">>, <<"A","u","t","o","m","a","t","i","n","g"," ","t","a","s","k","s"," ","(","s","c","h","e","d","u","l","e","d"," ","j","o","b","s","/","r","e","p","e","a","t","e","d"," ","a","c","t","i","o","n","s",")">>>>,
       <<<<"c","a","l","c","u","l","a","t","i","o","n">>, <<"P","e","r","f","o","r","m","i","n","g"," ","c","a","l","c","u","l","a","t","i","o","n","s"," ","o","r"," ","d","a","t","a"," ","a","n","a","l","y","s","i","s">>>> >>

task_indicators ==
    {<<"c","r","e","a","t","e"," ","a"," ","p","r","o","g","r","a","m">>, <<"w","r","i","t","e"," ","c","o","d","e">>, <<"m","a","k","e"," ","a"," ","s","c","r","i","p","t">>,
     <<"i"," ","n","e","e","d"," ","a"," ","p","r","o","g","r","a","m">>, <<"d","e","v","e","l","o","p"," ","a">>, <<"b","u","i","l","d"," ","a">>,
     <<"a","u","t","o","m","a","t","e">>, <<"h","o","w"," ","d","o"," ","i"," ","c","o","d","e">>, <<"h","o","w"," ","t","o"," ","p","r","o","g","r","a","m">>,
     <<"i"," ","w","a","n","t"," ","t","o">>, <<"c","a","n"," ","y","o","u"," ","m","a","k","e">>, <<"h","e","l","p"," ","m","e"," ","c","r","e","a","t","e">>}

max_short_query == 8

\* _is_task_description taking a query of max_short_query tokens for long
_is_task_description_eight_tokens(query) ==
    \/ \E indicator \in task_indicators : Contains(lower(query), indicator)
    \/ split_len(query) >= max_short_query /\ ~Truthy(extract_code(query))

_is_task_description(query) ==
    \/ \E indicator \in task_indicators : Contains(lower(query), indicator)
    \/ split_len(query) > max_short_query /\ ~Truthy(extract_code(query))

is_review_request(query) ==
    \/ Contains(lower(query), <<"a","n","a","l","y","z","e"," ","t","h","i","s"," ","c","o","d","e">>)
    \/ Contains(lower(query), <<"r","e","v","i","e","w"," ","t","h","i","s"," ","c","o","d","e">>)

no_code_message == Str(<<"I"," ","d","o","n","'","t"," ","s","e","e"," ","a","n","y"," ","c","o","d","e"," ","t","o"," ","a","n","a","l","y","z","e","."," ","P","l","e","a","s","e"," ","s","h","a","r","e"," ","y","o","u","r"," ","c","o","d","e",".">>)

\* ', '.join(issues)
RECURSIVE join_issues(_)
join_issues(issues) ==
    IF issues = <<>> THEN <<>>
    ELSE IF Len(issues) = 1 THEN issues[1]
    ELSE issues[1] \o <<","," ">> \o join_issues(Tail(issues))

analysis_prompt(code, analysis_results) ==
    <<"P","l","e","a","s","e"," ","a","n","a","l","y","z","e"," ","t","h","i","s"," ","P","y","t","h","o","n"," ","c","o","d","e"," ","a","n","d"," ","p","r","o","v","i","d","e"," ","f","e","e","d","b","a","c","k",":","\n">> \o <<bq, bq, bq>>
    \o <<"p","y","t","h","o","n","\n">> \o code \o <<"\n", bq, bq, bq>>
    \o <<"\n","I","n","i","t","i","a","l"," ","a","n","a","l","y","s","i","s"," ","d","e","t","e","c","t","e","d",":","\n","-"," ","P","o","t","e","n","t","i","a","l"," ","i","s","s","u","e","s",":"," ">>
    \o (IF analysis_results.issues # <<>> THEN join_issues(analysis_results.issues)
        ELSE <<"N","o","n","e"," ","d","e","t","e","c","t","e","d">>)
    \o <<"\n","-"," ","C","o","d","e"," ","c","o","m","p","l","e","x","i","t","y",":"," ">> \o analysis_results.complexity
    \o <<"\n","P","l","e","a","s","e"," ","p","r","o","v","i","d","e",":">>

generation_prompt(specification) ==
    <<"P","l","e","a","s","e"," ","w","r","i","t","e"," ","P","y","t","h","o","n"," ","c","o","d","e"," ","b","a","s","e","d"," ","o","n"," ","t","h","e"," ","f","o","l","l","o","w","i","n","g"," ","s","p","e","c","i","f","i","c","a","t","i","o","n",":","\n">>
    \o specification \o <<"\n","T","h","e"," ","c","o","d","e"," ","s","h","o","u","l","d"," ","b","e",":">>

category_prompt(task_description) ==
    <<"I","d","e","n","t","i","f","y"," ","w","h","i","c","h"," ","O","N","E"," ","c","a","t","e","g","o","r","y"," ","b","e","s","t"," ","m","a","t","c","h","e","s"," ","t","h","i","s"," ","t","a","s","k"," ","d","e","s","c","r","i","p","t","i","o","n",":","\n">>
    \o task_description
    \o <<"\n","C","a","t","e","g","o","r","i","e","s",":","\n","R","e","t","u","r","n"," ","O","N","L","Y"," ","t","h","e"," ","c","a","t","e","g","o","r","y"," ","n","a","m","e",","," ","n","o","t","h","i","n","g"," ","e","l","s","e",".">>

conversion_prompt(task_description, task_category) ==
    <<"I"," ","n","e","e","d"," ","t","o"," ","c","o","n","v","e","r","t"," ","t","h","i","s"," ","t","a","s","k"," ","d","e","s","c","r","i","p","t","i","o","n"," ","i","n","t","o"," ","w","o","r","k","i","n","g"," ","P","y","t","h","o","n"," ","c","o","d","e",".","\n","T","A","S","K"," ","D","E","S","C","R","I","P","T","I","O","N",":","\n">>
    \o task_description \o <<"\n","I","D","E","N","T","I","F","I","E","D"," ","C","A","T","E","G","O","R","Y",":","\n">> \o task_category
    \o <<"\n","P","l","e","a","s","e",":">>

\* An operation gives [ret, requests]: what its caller gets (Return or Raise)
\* and the requests posted, in order.
Done(result, posted) == [ret |-> result, requests |-> posted]

\* The loop of _identify_task_category over task_templates, from entry n
RECURSIVE category_from(_, _)
category_from(response_lower, n) ==
    IF n > Len(task_templates) THEN <<"G","e","n","e","r","a","l"," ","p","r","o","g","r","a","m","m","i","n","g"," ","t","a","s","k">>
    ELSE IF Contains(response_lower, task_templates[n][1]) THEN task_templates[n][2]
    ELSE category_from(response_lower, n + 1)

\* str(e) of the AttributeError of response.lower() when response is no str
no_lower(response) ==
    (IF response.t = "NoneType" THEN <<"'","N","o","n","e","T","y","p","e","'">>
     ELSE IF response.t = "list" THEN <<"'","l","i","s","t","'">> ELSE <<"'","d","i","c","t","'">>)
    \o <<" ","o","b","j","e","c","t"," ","h","a","s"," ","n","o"," ","a","t","t","r","i","b","u","t","e"," ","'","l","o","w","e","r","'">>

\* route_of with the review test made first
route_of_review_first(query) ==
    IF is_review_request(query) THEN "review"
    ELSE IF _is_task_description(query) THEN "task"
    ELSE "general"

\* The branch process_query takes for a query
route_of(query) ==
    IF _is_task_description(query) THEN "task"
    ELSE IF is_review_request(query) THEN "review"
    ELSE "general"

\* The str replies the clients give to the answers above
Replies ==
    {reply \in {post_generate_response(client, <<>>, None, default_max_tokens, o).value :
                   client \in Clients, o \in AllOutcomes} : reply.t = "str"}

\* The category label for a str response
category_of(response) == category_from(lower(response.v), 1)

\* The pure steps below are computed once for the inputs above and looked up
\* from then on; any other argument is computed afresh.  (f @@ <<>> is f,
\* as a table.)
Routes == [query \in Queries |-> route_of(query)] @@ <<>>
Blocks == [query \in Queries \cup {reply_text, reply_code} |-> extract_code(query)] @@ <<>>
Codes == Snippets \cup {Blocks[query].v : query \in {q \in Queries : Truthy(Blocks[q])}}
Analyses == [code \in Codes |-> analyze(code)] @@ <<>>
Categories == [response \in Replies |-> category_of(response)] @@ <<>>

memo_route_of(query) ==
    IF query \in DOMAIN Routes THEN Routes[query] ELSE route_of(query)
memo_extract_code(query) ==
    IF query \in DOMAIN Blocks THEN Blocks[query] ELSE extract_code(query)
memo_analyze(code) ==
    IF code \in DOMAIN Analyses THEN Analyses[code] ELSE analyze(code)
memo_category_of(response) ==
    IF response \in DOMAIN Categories THEN Categories[response] ELSE category_of(response)

\* The rest of _identify_task_category once the client has answered
category_reply(sent) ==
    IF sent.value.t # "str"
    THEN Done(Raise("AttributeError", no_lower(sent.value)), <<sent.request>>)
    ELSE Done(Return(Str(memo_category_of(sent.value))), <<sent.request>>)

_identify_task_category(client, task_description, o) ==
    category_reply(generate_response(client, category_prompt(task_description),
                                     None, default_max_tokens, o))

\* return response: what the client answered, after the requests made before
answered(prior, sent) == Done(Return(sent.value), prior \o <<sent.request>>)

convert_task_to_code(client, task_description, o1, o2) ==
    LET category == _identify_task_category(client, task_description, o1)
    IN  IF category.ret.kind = "raise" THEN category
        ELSE answered(category.requests,
                      generate_response(client,
                          conversion_prompt(task_description, category.ret.value.v),
                          _create_system_prompt_for_task_conversion,
                          default_max_tokens, o2))

analyze_code(client, code, o) ==
    LET analysis_results == memo_analyze(code)
    IN  IF analysis_results.kind = "raise" THEN Done(analysis_results, <<>>)
        ELSE answered(<<>>,
                      generate_response(client,
                          analysis_prompt(code, analysis_results.value),
                          _create_system_prompt_for_code_review,
                          default_max_tokens, o))

generate_code(client, specification, o) ==
    answered(<<>>,
             generate_response(client, generation_prompt(specification),
                               _create_system_prompt_for_code_generation,
                               default_max_tokens, o))

\* respond with the general route sending the current query alone
respond_last_message(client, history, query, o1, o2) ==
    CASE memo_route_of(query) = "task" ->
            convert_task_to_code(client, query, o1, o2)
      [] memo_route_of(query) = "review" ->
            LET code == memo_extract_code(query)
            IN  IF Truthy(code) THEN analyze_code(client, code.v, o1)
                ELSE Done(Return(no_code_message), <<>>)
      [] OTHER ->
            answered(<<>>,
                     generate_response_with_history(client,
                         <<history[Len(history)]>>,
                         _create_system_prompt_for_programming,
                         default_max_tokens, o1))

\* process_query after the user entry was appended: history is
\* self.conversation_history with that entry.
respond(client, history, query, o1, o2) ==
    CASE memo_route_of(query) = "task" ->
            convert_task_to_code(client, query, o1, o2)
      [] memo_route_of(query) = "review" ->
            LET code == memo_extract_code(query)
            IN  IF Truthy(code) THEN analyze_code(client, code.v, o1)
                ELSE Done(Return(no_code_message), <<>>)
      [] OTHER ->
            answered(<<>>,
                     generate_response_with_history(client, history,
                         _create_system_prompt_for_programming,
                         default_max_tokens, o1))

----------------------------------------------------------------------------
(* State *)

VARIABLES
    conversation_history,  \* ProgrammingAssistant.conversation_history
    api_client,            \* the client in use (ProgrammingAssistant.api_client)
    environ,               \* os.environ
    dotenv,                \* the variables of the project's .env file
    ret,                   \* what the last operation gave its caller
    requests,              \* the client calls the last operation made, in order
    last_op,               \* the last operation and its arguments
    processing,            \* the GUI's app.processing flag
    worker,                \* the GUI's background thread: where it is, what it holds
    input,                 \* the text a pure function is about to be applied to
    app,                   \* the GUI's widgets and app.last_code
    after,                 \* the callbacks root.after(0, ...) has scheduled, in order
    terminal               \* what the CLI has printed, in order

vars == <<conversation_history, api_client, environ, dotenv, ret, requests, last_op,
          processing, worker, input, app, after, terminal>>

----------------------------------------------------------------------------
(* Bounds *)

MaxHistoryLen == 4

NoClient == [cls |-> "None", api_key |-> None, model |-> <<>>, api_endpoint |-> <<>>]

\* No background thread is running
NoWorker ==
    [pc |-> "idle", mode |-> "", user_input |-> <<>>, response |-> None,
     error |-> <<>>, ending |-> 0]

\* The output widget holding no text
Nothing == [kind |-> "nothing", text |-> <<>>]

\* The widgets as create_input_panel and create_output_panel build them, and
\* last_code as ProgrammingAssistantGUI.__init__ sets it
NewApp ==
    [last_code |-> <<>>, submit_button |-> "normal", status_label |-> "Ready",
     progress_bar |-> "stopped", output_text |-> Nothing]

\* Outside the GUI there is no flag and no thread; outside the specifications
\* of the pure functions there is no input waiting.
no_gui == processing = FALSE /\ worker = NoWorker /\ app = NewApp /\ after = <<>>
no_input == input = <<>>
no_cli == terminal = <<>>

----------------------------------------------------------------------------
(* The orchestrator and its client *)

\* The clients the orchestrator is given
AssistantClients ==
    {client \in Clients : client.cls \in {"ClaudeAPIClient", "HuggingFaceAPIClient"}}

Init ==
    /\ conversation_history = <<>>
    /\ api_client \in AssistantClients
    /\ environ = unset
    /\ dotenv = unset
    /\ ret = Return(None)
    /\ requests = <<>>
    /\ last_op = [name |-> "__init__"]
    /\ no_gui
    /\ no_cli
    /\ no_input

assistant_message(response) == [role |-> "assistant", content |-> response]

\* A generation call that puts the system prompt into the list it is given
messages_given_system_first(self, messages, system_prompt) ==
    <<[role |-> "system", content |-> system_prompt]>> \o messages

\* The list a generation call was given, once the call is over.  Every
\* client builds what it sends in a list of its own (openai_messages,
\* contents, grok_messages, deepseek_messages; the Claude client puts the
\* list into data without changing it, the Hugging Face client reads it in
\* a loop), so the caller's list holds what it held.
messages_given(self, messages, system_prompt) == messages

\* self.conversation_history once the branch of process_query is over: the
\* general branch hands the list itself to the client
history_after(history, query) ==
    IF memo_route_of(query) = "general"
    THEN messages_given(api_client, history, _create_system_prompt_for_programming)
    ELSE history

\* The body of ProgrammingAssistant.process_query: the user entry, the
\* response, the assistant entry when the response came
process_query_body(query, o1, o2) ==
    \E history \in {Append(conversation_history, user_message(query))} :
       \E done \in {respond(api_client, history, query, o1, o2)} :
           /\ conversation_history' =
                IF done.ret.kind = "return"
                THEN Append(history_after(history, query),
                            assistant_message(done.ret.value))
                ELSE history_after(history, query)
           /\ ret' = done.ret
           /\ requests' = done.requests

\* ProgrammingAssistant.process_query
process_query_call(query, o1, o2) ==
    /\ process_query_body(query, o1, o2)
    /\ last_op' = [name |-> "process_query", arg |-> query]
    /\ UNCHANGED <<api_client, environ, dotenv, processing, worker, input, app, after, terminal>>

\* process_query while the history is short enough to enumerate
process_query(query, o1, o2) ==
    /\ Len(conversation_history) + 2 <= MaxHistoryLen
    /\ process_query_call(query, o1, o2)

\* A direct call of a method that leaves the history alone
direct(name, arg, done) ==
    /\ ret' = done.ret
    /\ requests' = done.requests
    /\ last_op' = [name |-> name, arg |-> arg]
    /\ UNCHANGED <<conversation_history, api_client, environ, dotenv, processing, worker, input, app, after, terminal>>

call_convert_task_to_code(task_description, o1, o2) ==
    direct("convert_task_to_code", task_description,
           convert_task_to_code(api_client, task_description, o1, o2))

call_analyze_code(code, o) ==
    direct("analyze_code", code, analyze_code(api_client, code, o))

call_generate_code(specification, o) ==
    direct("generate_code", specification, generate_code(api_client, specification, o))

\* clear_conversation_history dropping the last entry only
clear_last_entry ==
    /\ conversation_history' =
            SubSeq(conversation_history, 1, Len(conversation_history) - 1)
    /\ ret' = Return(None)
    /\ requests' = <<>>
    /\ last_op' = [name |-> "clear_conversation_history"]
    /\ UNCHANGED <<api_client, environ, dotenv, processing, worker, input, app, after, terminal>>

clear_conversation_history ==
    /\ conversation_history' = <<>>
    /\ ret' = Return(None)
    /\ requests' = <<>>
    /\ last_op' = [name |-> "clear_conversation_history"]
    /\ UNCHANGED <<api_client, environ, dotenv, processing, worker, input, app, after, terminal>>

\* The answers to a second request: only the task route makes one
SecondOutcomes(query, o1) ==
    IF memo_route_of(query) = "task" THEN Outcomes(api_client.cls) ELSE {o1}

Next ==
    \/ \E query \in Queries : \E o1 \in Outcomes(api_client.cls) :
          \E o2 \in SecondOutcomes(query, o1) : process_query(query, o1, o2)
    \/ \E o1, o2 \in Outcomes(api_client.cls) :
          call_convert_task_to_code(q_task, o1, o2)
    \/ \E code \in Snippets : \E o \in Outcomes(api_client.cls) :
          call_analyze_code(code, o)
    \/ \E o \in Outcomes(api_client.cls) : call_generate_code(q_task, o)
    \/ clear_conversation_history

Spec == Init /\ [][Next]_vars


----------------------------------------------------------------------------
(* The client layer on its own: the factory, set_model and the two         *)
(* generation methods, called directly                                     *)

\* os.environ when the process starts
Environs ==
    {unset,
     [unset EXCEPT !["CLAUDE_API_KEY"] = Str(<<"c","k">>), !["ANTHROPIC_API_KEY"] = Str(<<"a","k">>)],
     [unset EXCEPT !["CLAUDE_API_KEY"] = Str(<<>>), !["ANTHROPIC_API_KEY"] = Str(<<"a","k">>),
                   !["OPENAI_MODEL"] = Str(<<"g","p","t","-","4">>)]}

\* The variables of the .env file: none, or a key for four of the providers
DotenvFiles ==
    {unset,
     [unset EXCEPT !["CLAUDE_API_KEY"] = Str(<<"f","k">>), !["GEMINI_API_KEY"] = Str(<<"f","k">>),
                   !["HUGGINGFACE_API_KEY"] = Str(<<"f","k">>), !["GROK_API_KEY"] = Str(<<"f","k">>),
                   !["GEMINI_MODEL"] = Str(<<"g","e","m","i","n","i","-","p","r","o">>)]}

Providers ==
    {<<"c","l","a","u","d","e">>, <<"A","n","t","h","r","o","p","i","c">>, <<"O","P","E","N","A","I">>, <<"g","e","m","i","n","i">>, <<"G","o","o","g","l","e">>, <<"h","u","g","g","i","n","g","f","a","c","e">>,
     <<"g","r","o","k">>, <<"D","e","e","p","S","e","e","k">>, <<"M","i","s","t","r","a","l">>}

ApiKeys == {None, Str(<<>>), test_key}

Models == {<<"m","2">>, <<>>}

SystemPrompts == {None, Str(<<"B","e"," ","b","r","i","e","f",".">>)}

Histories ==
    {<<user_message(<<"h","i">>), assistant_message(Str(<<"h","e","l","l","o">>)), user_message(<<"m","o","r","e">>)>>}

\* The answers an endpoint gives a client called directly
HttpOutcomes(cls) ==
    Outcomes(cls)
    \cup {Response(200, well_formed_body(c, JStr(reply_text))) : c \in Classes}
    \cup {Response(401, error_body), Response(500, NotJson), Response(200, NotJson),
          Response(200, error_body), Response(200, JArr(<<>>)),
          Response(200, JArr(<<JObj(<<>>)>>))}

InitClient ==
    /\ conversation_history = <<>>
    /\ api_client = NoClient
    /\ environ \in Environs
    /\ dotenv \in DotenvFiles
    /\ ret = Return(None)
    /\ requests = <<>>
    /\ last_op = [name |-> "start"]
    /\ no_gui
    /\ no_cli
    /\ no_input

\* api_client = create_api_client(provider, api_key): the assignment happens
\* only when the call returns.
call_create_api_client(provider, api_key) ==
    LET made == create_api_client(provider, api_key, environ, dotenv)
    IN  /\ environ' = made.environ
        /\ api_client' = IF made.result.kind = "return" THEN made.result.value
                         ELSE api_client
        /\ ret' = made.result
        /\ requests' = <<>>
        /\ last_op' = [name |-> "create_api_client", arg |-> provider, api_key |-> api_key]
        /\ UNCHANGED <<conversation_history, dotenv, processing, worker, input, app, after, terminal>>

\* set_model leaving the client as it is
set_model_ignored(model_name) ==
    /\ api_client # NoClient
    /\ api_client' = api_client
    /\ ret' = Return(None)
    /\ requests' = <<>>
    /\ last_op' = [name |-> "set_model", arg |-> model_name]
    /\ UNCHANGED <<conversation_history, environ, dotenv, processing, worker, input, app, after, terminal>>

set_model(model_name) ==
    /\ api_client # NoClient
    /\ api_client' = [api_client EXCEPT !.model = model_name]
    /\ ret' = Return(None)
    /\ requests' = <<>>
    /\ last_op' = [name |-> "set_model", arg |-> model_name]
    /\ UNCHANGED <<conversation_history, environ, dotenv, processing, worker, input, app, after, terminal>>

\* A generation method called on the client
generation(name, o, sent) ==
    /\ api_client # NoClient
    /\ ret' = Return(sent.value)
    /\ requests' = <<sent.request>>
    /\ last_op' = [name |-> name, outcome |-> o]
    /\ UNCHANGED <<conversation_history, api_client, environ, dotenv, processing, worker, input, app, after, terminal>>

call_generate_response(prompt, system_prompt, o) ==
    generation("generate_response", o,
               generate_response(api_client, prompt, system_prompt, default_max_tokens, o))

call_generate_response_with_history(messages, system_prompt, o) ==
    generation("generate_response_with_history", o,
               generate_response_with_history(api_client, messages, system_prompt,
                                              default_max_tokens, o))

NextClient ==
    \/ \E provider \in Providers : \E api_key \in ApiKeys :
          call_create_api_client(provider, api_key)
    \/ \E model_name \in Models : set_model(model_name)
    \/ \E system_prompt \in SystemPrompts : \E o \in HttpOutcomes(api_client.cls) :
          call_generate_response(q_general, system_prompt, o)
    \/ \E messages \in Histories : \E system_prompt \in SystemPrompts :
          \E o \in HttpOutcomes(api_client.cls) :
             call_generate_response_with_history(messages, system_prompt, o)

SpecClient == InitClient /\ [][NextClient]_vars

----------------------------------------------------------------------------
(* The GUI (src/ui/handlers): the main thread runs the handlers of the     *)
(* event loop and the callbacks root.after has scheduled, a background     *)
(* thread runs one orchestrator call at a time.                            *)
(*                                                                         *)
(* app is [last_code, submit_button, status_label, progress_bar,           *)
(* output_text]; output_text is [kind, text], the text that                *)
(* _update_output was last given and whether as a response or an error,    *)
(* or nothing since the widget was emptied.                                *)
(*                                                                         *)
(* The worker is [pc, mode, user_input, response, error, ending]; pc is    *)
(* where the thread stands:                                                *)
(*   "started"    _process_in_thread entered, the orchestrator not called  *)
(*   "appended"   process_query has appended the user entry                *)
(*   "responded"  process_query holds the response, not yet appended       *)
(*   "returned"   the orchestrator call returned response                  *)
(*   "extracted"  last_code is set, the update not yet scheduled           *)
(*   "raised"     an exception (str(e) in error) reached the except clause *)
(*   "finishing"  the update is scheduled, finally not yet run             *)
(* ending counts the threads that have lowered the flag and not yet        *)
(* scheduled _reset_ui.                                                    *)

Modes == {"general", "task", "analyze"}

\* What starts process_input: the Submit button, Ctrl+Return in the input
\* box, Tools > Analyze Code
Triggers == {"submit_button", "Control-Return", "_analyze_current_code"}

\* What the user types in each mode: a question or a task, a task, a snippet
UserInputs(mode) ==
    CASE mode = "general" -> {q_general, q_task}
      [] mode = "task" -> {q_task}
      [] OTHER -> {snippet_naming}

\* Callbacks waiting in the event loop beyond which no submission is made
MaxPending == 1

\* The answers a vendor gives in a session: the above, and code
GuiOutcomes(cls) ==
    Outcomes(cls) \cup {Response(200, well_formed_body(cls, JStr(reply_code)))}

\* str(e) of the TypeError re.findall raises when given None
no_findall == <<"e","x","p","e","c","t","e","d"," ","s","t","r","i","n","g"," ","o","r"," ","b","y","t","e","s","-","l","i","k","e"," ","o","b","j","e","c","t",","," ","g","o","t"," ","'","N","o","n","e","T","y","p","e","'">>

InitGui ==
    /\ conversation_history = <<>>
    /\ api_client \in AssistantClients
    /\ environ = unset
    /\ dotenv = unset
    /\ ret = Return(None)
    /\ requests = <<>>
    /\ last_op = [name |-> "__init__"]
    /\ no_gui
    /\ no_cli
    /\ no_input

\* process_input starting a thread whatever the flag says
process_input_unguarded(trigger, mode, user_input) ==
    /\ trigger = "_analyze_current_code" => mode = "analyze"
    /\ trigger # "_analyze_current_code" => app.submit_button = "normal"
    /\ Len(conversation_history) + 2 <= MaxHistoryLen
    /\ Len(after) + worker.ending <= MaxPending
    /\ processing' = TRUE
    /\ app' = [app EXCEPT !.status_label = "Processing...",
                          !.submit_button = "disabled",
                          !.progress_bar = "running",
                          !.output_text = Nothing]
    /\ worker' = [worker EXCEPT !.pc = "started", !.mode = mode,
                                !.user_input = user_input]
    /\ last_op' = [name |-> "process_input", arg |-> user_input]
    /\ UNCHANGED <<conversation_history, api_client, environ, dotenv, ret, requests, input, after, terminal>>

\* InputHandler.process_input: returns at once while a call is in progress,
\* otherwise raises the flag, shows the busy state, empties the output and
\* starts the thread.  The Submit button and Ctrl+Return (submit_button.invoke)
\* reach it only while the button is enabled; _analyze_current_code sets the
\* mode and calls it.
process_input(trigger, mode, user_input) ==
    /\ ~processing
    /\ trigger = "_analyze_current_code" => mode = "analyze"
    /\ trigger # "_analyze_current_code" => app.submit_button = "normal"
    /\ Len(conversation_history) + 2 <= MaxHistoryLen
    /\ Len(after) + worker.ending <= MaxPending
    /\ processing' = TRUE
    /\ app' = [app EXCEPT !.status_label = "Processing...",
                          !.submit_button = "disabled",
                          !.progress_bar = "running",
                          !.output_text = Nothing]
    /\ worker' = [worker EXCEPT !.pc = "started", !.mode = mode,
                                !.user_input = user_input]
    /\ last_op' = [name |-> "process_input", arg |-> user_input]
    /\ UNCHANGED <<conversation_history, api_client, environ, dotenv, ret, requests, input, after, terminal>>

\* Where the thread stands once a call gave result
after_call(result) ==
    [worker EXCEPT !.pc = IF result.kind = "raise" THEN "raised" ELSE "returned",
                   !.response = result.value,
                   !.error = result.exc.msg]

\* The thread in mode "task" or "analyze" once its orchestrator call, which
\* leaves the history alone, is done
worker_called(done) ==
    /\ worker.pc = "started"
    /\ worker.mode \in {"task", "analyze"}
    /\ ret' = done.ret
    /\ requests' = done.requests
    /\ worker' = after_call(done.ret)
    /\ last_op' = [name |-> IF worker.mode = "task" THEN "convert_task_to_code"
                            ELSE "analyze_code",
                   arg |-> worker.user_input]
    /\ UNCHANGED <<conversation_history, api_client, environ, dotenv, processing, input, app, after, terminal>>

\* self.app.assistant.convert_task_to_code(user_input) or
\* self.app.assistant.analyze_code(code)
worker_call(o1, o2) ==
    /\ worker.pc = "started"
    /\ worker.mode \in {"task", "analyze"}
    /\ \E done \in {IF worker.mode = "task"
                     THEN convert_task_to_code(api_client, worker.user_input, o1, o2)
                     ELSE analyze_code(api_client, worker.user_input, o1)} :
           worker_called(done)

\* The thread in mode "general", process_query line by line: the append of the
\* user entry,
worker_append_user ==
    /\ worker.pc = "started"
    /\ worker.mode = "general"
    /\ conversation_history' = Append(conversation_history, user_message(worker.user_input))
    /\ worker' = [worker EXCEPT !.pc = "appended"]
    /\ last_op' = [name |-> "process_query", arg |-> worker.user_input]
    /\ UNCHANGED <<api_client, environ, dotenv, ret, requests, processing, input, app, after, terminal>>

\* the branch taken and done (an exception ends process_query and is caught
\* by the thread),
worker_responded(done) ==
    /\ worker.pc = "appended"
    /\ requests' = done.requests
    /\ ret' = IF done.ret.kind = "raise" THEN done.ret ELSE ret
    /\ worker' = [after_call(done.ret) EXCEPT
                     !.pc = IF done.ret.kind = "raise" THEN "raised" ELSE "responded"]
    /\ last_op' = [name |-> "process_query", arg |-> worker.user_input]
    /\ UNCHANGED <<conversation_history, api_client, environ, dotenv, processing, input, app, after, terminal>>

\* the response computed from self.conversation_history as it is when the
\* branch reads it,
worker_respond(o1, o2) ==
    /\ worker.pc = "appended"
    /\ \E done \in {respond(api_client, conversation_history, worker.user_input, o1, o2)} :
           worker_responded(done)

\* the append of the assistant entry and the return.
worker_append_assistant ==
    /\ worker.pc = "responded"
    /\ conversation_history' =
            Append(conversation_history, assistant_message(worker.response))
    /\ ret' = Return(worker.response)
    /\ worker' = [worker EXCEPT !.pc = "returned"]
    /\ last_op' = [name |-> "process_query", arg |-> worker.user_input]
    /\ UNCHANGED <<api_client, environ, dotenv, requests, processing, input, app, after, terminal>>

\* self.app.last_code = extract_code(response) or "": the TypeError of
\* extract_code on None goes to the except clause
worker_extract ==
    /\ worker.pc = "returned"
    /\ IF worker.response.t # "str"
       THEN /\ worker' = [worker EXCEPT !.pc = "raised", !.error = no_findall]
            /\ app' = app
       ELSE /\ worker' = [worker EXCEPT !.pc = "extracted"]
            /\ app' = [app EXCEPT !.last_code = Or(memo_extract_code(worker.response.v),
                                                   Str(<<>>)).v]
    /\ UNCHANGED <<conversation_history, api_client, environ, dotenv, ret, requests, last_op, processing, input, after, terminal>>

\* self.app.root.after(0, lambda: self._update_output(response))
worker_schedule_update ==
    /\ worker.pc = "extracted"
    /\ after' = Append(after, [callback |-> "_update_output",
                               text |-> worker.response.v, is_error |-> FALSE])
    /\ worker' = [worker EXCEPT !.pc = "finishing"]
    /\ UNCHANGED <<conversation_history, api_client, environ, dotenv, ret, requests, last_op, processing, input, app, terminal>>

\* except Exception as e: the error message is scheduled for display
worker_except ==
    /\ worker.pc = "raised"
    /\ after' = Append(after, [callback |-> "_update_output",
                               text |-> <<"E","r","r","o","r"," ","p","r","o","c","e","s","s","i","n","g"," ","y","o","u","r"," ","r","e","q","u","e","s","t",":"," ">> \o worker.error,
                               is_error |-> TRUE])
    /\ worker' = [worker EXCEPT !.pc = "finishing"]
    /\ UNCHANGED <<conversation_history, api_client, environ, dotenv, ret, requests, last_op, processing, input, app, terminal>>

\* finally keeping the flag raised
worker_finally_flag_kept ==
    /\ worker.pc = "finishing"
    /\ processing' = processing
    /\ worker' = [NoWorker EXCEPT !.ending = worker.ending + 1]
    /\ last_op' = [name |-> "_process_in_thread", arg |-> worker.user_input]
    /\ UNCHANGED <<conversation_history, api_client, environ, dotenv, ret, requests, input, app, after, terminal>>

\* finally: self.app.processing = False,
worker_finally ==
    /\ worker.pc = "finishing"
    /\ processing' = FALSE
    /\ worker' = [NoWorker EXCEPT !.ending = worker.ending + 1]
    /\ last_op' = [name |-> "_process_in_thread", arg |-> worker.user_input]
    /\ UNCHANGED <<conversation_history, api_client, environ, dotenv, ret, requests, input, app, after, terminal>>

\* then self.app.root.after(0, self._reset_ui), and the thread ends.
worker_schedule_reset ==
    /\ worker.ending > 0
    /\ after' = Append(after, [callback |-> "_reset_ui", text |-> <<>>,
                               is_error |-> FALSE])
    /\ worker' = [worker EXCEPT !.ending = worker.ending - 1]
    /\ UNCHANGED <<conversation_history, api_client, environ, dotenv, ret, requests, last_op, processing, input, app, terminal>>

\* InputHandler._update_output
_update_output(text, is_error) ==
    [app EXCEPT !.output_text = [kind |-> IF is_error THEN "error" ELSE "response",
                                 text |-> text]]

\* InputHandler._reset_ui
_reset_ui ==
    [app EXCEPT !.submit_button = "normal", !.progress_bar = "stopped",
                !.status_label = "Ready"]

\* The event loop runs the callback scheduled first
run_callback ==
    /\ after # <<>>
    /\ app' = IF after[1].callback = "_reset_ui" THEN _reset_ui
              ELSE _update_output(after[1].text, after[1].is_error)
    /\ after' = Tail(after)
    /\ UNCHANGED <<conversation_history, api_client, environ, dotenv, ret, requests, last_op, processing, worker, input, terminal>>

\* MenuHandler._clear_history (File > Clear History): no test of the flag
_clear_history ==
    /\ conversation_history' = <<>>
    /\ last_op' = [name |-> "_clear_history", arg |-> <<>>]
    /\ UNCHANGED <<api_client, environ, dotenv, ret, requests, processing, worker, input, app, after, terminal>>

\* The steps of the thread after its orchestrator call
worker_wrap_up ==
    \/ worker_extract
    \/ worker_schedule_update
    \/ worker_except
    \/ worker_finally

NextGui ==
    \/ \E trigger \in Triggers : \E mode \in Modes : \E user_input \in UserInputs(mode) :
          process_input(trigger, mode, user_input)
    \/ \E o1 \in GuiOutcomes(api_client.cls) : \E o2 \in Outcomes(api_client.cls) :
          worker_call(o1, o2)
    \/ worker_append_user
    \/ /\ worker.pc = "appended"
       /\ \E o1 \in GuiOutcomes(api_client.cls) :
             \E o2 \in SecondOutcomes(worker.user_input, o1) : worker_respond(o1, o2)
    \/ worker_append_assistant
    \/ worker_wrap_up
    \/ worker_schedule_reset
    \/ run_callback
    \/ _clear_history

SpecGui == InitGui /\ [][NextGui]_vars

----------------------------------------------------------------------------
(* The GUI's submissions with the orchestrator call as an input: what the  *)
(* call gives the thread is drawn from the results the orchestrator has,   *)
(* the requests it made left out; one client, one text typed in each mode. *)

\* A reply holding code, None, and the exception of _identify_task_category
OrchestratorResults ==
    {Done(Return(Str(reply_code)), <<>>), Done(Return(None), <<>>),
     Done(Raise("AttributeError", no_lower(None)), <<>>)}

\* What the user types in each mode
typed(mode) ==
    CASE mode = "general" -> q_general
      [] mode = "task" -> q_task
      [] OTHER -> snippet_naming

InitGuiFair == InitGui /\ api_client.cls = "ClaudeAPIClient"

\* The steps of the thread up to the lowering of the flag
worker_step ==
    \/ \E done \in OrchestratorResults : worker_called(done)
    \/ worker_append_user
    \/ \E done \in OrchestratorResults : worker_responded(done)
    \/ worker_append_assistant
    \/ worker_wrap_up

NextGuiFair ==
    \/ \E trigger \in Triggers : \E mode \in Modes :
          process_input(trigger, mode, typed(mode))
    \/ worker_step
    \/ worker_schedule_reset
    \/ run_callback
    \/ _clear_history

\* Every thread is scheduled and the event loop runs: no step of theirs that
\* can be taken waits for ever
SpecGuiFair ==
    /\ InitGuiFair /\ [][NextGuiFair]_vars
    /\ WF_vars(worker_step) /\ WF_vars(worker_schedule_reset) /\ WF_vars(run_callback)

----------------------------------------------------------------------------
(* Task conversion on its own: convert_task_to_code called on each client, *)
(* the classification request answered in the ways a model can answer it   *)

\* Classification replies: a keyword, a keyword in other case, the name of a
\* category spelt with a space, two keywords, no keyword
category_replies ==
    {<<"d","a","t","a","_","p","r","o","c","e","s","s","i","n","g">>, <<"U","I","_","C","r","e","a","t","i","o","n">>, <<"W","e","b"," ","i","n","t","e","r","a","c","t","i","o","n">>,
     <<"c","a","l","c","u","l","a","t","i","o","n"," ","o","r"," ","f","i","l","e","_","o","p","e","r","a","t","i","o","n","s">>, <<"n","o","n","e"," ","o","f"," ","t","h","e","m">>}

\* The answers to the classification request
TaskOutcomes(cls) ==
    Outcomes(cls)
    \cup {Response(200, well_formed_body(cls, JStr(text))) : text \in category_replies}

TaskDescriptions == {q_task, q_task_and_review}

InitTask ==
    /\ conversation_history = <<>>
    /\ api_client \in Clients
    /\ environ = unset
    /\ dotenv = unset
    /\ ret = Return(None)
    /\ requests = <<>>
    /\ last_op = [name |-> "__init__"]
    /\ no_gui
    /\ no_cli
    /\ no_input

NextTask ==
    \E task_description \in TaskDescriptions :
       \E o1 \in TaskOutcomes(api_client.cls) : \E o2 \in Outcomes(api_client.cls) :
          call_convert_task_to_code(task_description, o1, o2)

SpecTask == InitTask /\ [][NextTask]_vars

----------------------------------------------------------------------------
(* The pure functions of text, applied to texts put together from pieces:  *)
(* utils.extract_code and ProgrammingAssistant._is_task_description        *)

\* The most pieces a text is put together from
MaxPieces == 4

\* Fences with the tag python, the tag py and no tag, each with a line after
\* it (a fence closes the block that is open, or opens one); an indented line
\* (four spaces), a line indented by a tab with an empty line after it, a
\* line that is not indented
fence_pieces ==
    {<<bq,bq,bq,"p","y","t","h","o","n","\n","a","\n">>, <<bq,bq,bq,"p","y","\n","a","\n">>, <<bq,bq,bq,"\n"," "," "," "," ","b","\n">>,
     <<" "," "," "," ","b","\n">>, <<"\t","c","\n","\n">>, <<"a","\n">>}

\* Eight words, one more word, an indicator phrase in capitals, an indented
\* line, a fenced block, a fenced block with nothing in it
query_pieces ==
    {<<"p"," ","q"," ","r"," ","s"," ","t"," ","u"," ","v"," ","w">>, <<" ","x">>, <<" ","B","u","i","l","d"," ","A">>, <<"\n"," "," "," "," ","y">>, <<"\n",bq,bq,bq,"\n","z","\n",bq,bq,bq>>,
     <<"\n",bq,bq,bq,"\n",bq,bq,bq>>}

\* The texts of at most n pieces
RECURSIVE texts_of(_, _)
texts_of(pieces, n) ==
    IF n = 0 THEN {<<>>}
    ELSE LET shorter == texts_of(pieces, n - 1)
         IN  shorter \cup {text \o piece : text \in shorter, piece \in pieces}

Texts == texts_of(fence_pieces, MaxPieces) \cup texts_of(query_pieces, MaxPieces)

\* A Python bool
Bool(b) == [t |-> "bool", v |-> b]

InitText ==
    /\ conversation_history = <<>>
    /\ api_client = NoClient
    /\ environ = unset
    /\ dotenv = unset
    /\ ret = Return(None)
    /\ requests = <<>>
    /\ last_op = [name |-> "start"]
    /\ no_gui
    /\ no_cli
    /\ input \in Texts

\* A pure function applied to the input
apply(name, value) ==
    /\ ret' = Return(value)
    /\ requests' = <<>>
    /\ last_op' = [name |-> name, arg |-> input]
    /\ UNCHANGED <<conversation_history, api_client, environ, dotenv, processing, worker, input, app, after, terminal>>

call_extract_code == apply("extract_code", extract_code(input))

call_is_task_description ==
    apply("_is_task_description", Bool(_is_task_description(input)))

NextText ==
    \/ call_extract_code
    \/ call_is_task_description

SpecText == InitText /\ [][NextText]_vars

----------------------------------------------------------------------------
(* The analyzer applied to programs *)

MaxStatements == 3

\* The texts of at most n statements, one per line
RECURSIVE programs_of(_)
programs_of(n) ==
    IF n = 1 THEN {s.text : s \in Statements}
    ELSE LET shorter == programs_of(n - 1)
         IN  shorter \cup {p \o <<"\n">> \o s.text : p \in shorter, s \in Statements}

Programs == programs_of(MaxStatements)

InitAnalyzer ==
    /\ conversation_history = <<>>
    /\ api_client = NoClient
    /\ environ = unset
    /\ dotenv = unset
    /\ ret = Return(None)
    /\ requests = <<>>
    /\ last_op = [name |-> "start"]
    /\ no_gui
    /\ no_cli
    /\ input \in Programs

\* CodeAnalyzer().analyze(input)
call_analyze ==
    /\ ret' = analyze(input)
    /\ requests' = <<>>
    /\ last_op' = [name |-> "analyze", arg |-> input]
    /\ UNCHANGED <<conversation_history, api_client, environ, dotenv, processing, worker, input, app, after, terminal>>

NextAnalyzer == call_analyze

SpecAnalyzer == InitAnalyzer /\ [][NextAnalyzer]_vars

----------------------------------------------------------------------------
(* The construction of the orchestrator by its callers, and the GUI's     *)
(* model selector                                                          *)

\* ProgrammingAssistant(**keywords): __init__(self, api_key=None) takes no
\* other keyword, and its body names ClaudeAPIClient, which the module does
\* not import (it imports create_api_client).
ProgrammingAssistant_init(keywords) ==
    IF \E n \in 1..Len(keywords) : keywords[n] # <<"a","p","i","_","k","e","y">>
    THEN Raise("TypeError",
               <<"P","r","o","g","r","a","m","m","i","n","g","A","s","s","i","s","t","a","n","t",".","_","_","i","n","i","t","_","_","(",")"," ","g","o","t"," ","a","n"," ","u","n","e","x","p","e","c","t","e","d"," ","k","e","y","w","o","r","d"," ","a","r","g","u","m","e","n","t"," ","'">>
               \o keywords[CHOOSE n \in 1..Len(keywords) :
                             /\ keywords[n] # <<"a","p","i","_","k","e","y">>
                             /\ \A m \in 1..(n - 1) : keywords[m] = <<"a","p","i","_","k","e","y">>]
               \o <<"'">>)
    ELSE Raise("NameError", <<"n","a","m","e"," ","'","C","l","a","u","d","e","A","P","I","C","l","i","e","n","t","'"," ","i","s"," ","n","o","t"," ","d","e","f","i","n","e","d">>)

\* --model as main passes it on: None unless given and non-empty
CliModels == {None} \cup {Str(m) : m \in Models \ {<<>>}}

\* Before any caller ran there is no orchestrator; the other
\* specifications start from one that holds a client.
InitLaunch ==
    /\ conversation_history = <<>>
    /\ api_client \in {NoClient} \cup AssistantClients
    /\ environ \in Environs
    /\ dotenv \in DotenvFiles
    /\ ret = Return(None)
    /\ requests = <<>>
    /\ last_op = [name |-> "start"]
    /\ no_gui
    /\ no_cli
    /\ no_input

\* A caller constructing the orchestrator: the assignment of the new object
\* happens only when the constructor returns.
construct(caller, provider, model, made) ==
    /\ api_client = NoClient
    /\ ret' = made
    /\ requests' = <<>>
    /\ last_op' = [name |-> caller, provider |-> provider, model |-> model]
    /\ UNCHANGED <<conversation_history, api_client, environ, dotenv, processing, worker, input, app, after, terminal>>

\* main.main: ProgrammingAssistant(provider=args.provider, model=model)
main(provider, model) ==
    construct("main", provider, model,
              ProgrammingAssistant_init(<<<<"p","r","o","v","i","d","e","r">>, <<"m","o","d","e","l">>>>))

\* ProgrammingAssistantGUI.__init__: ProgrammingAssistant(provider="claude")
ProgrammingAssistantGUI_init ==
    construct("ProgrammingAssistantGUI.__init__", <<"c","l","a","u","d","e">>, None,
              ProgrammingAssistant_init(<<<<"p","r","o","v","i","d","e","r">>>>))

\* custom_gui and gui_interface: ProgrammingAssistant()
CustomGUI_init ==
    construct("CustomGUI.__init__", <<"c","l","a","u","d","e">>, None, ProgrammingAssistant_init(<<>>))

\* ProgrammingAssistantGUI._on_model_changed: the orchestrator has no
\* set_model, the AttributeError of the lookup is caught and shown in a
\* dialog, and nothing else happens.
_on_model_changed(provider, model) ==
    /\ api_client # NoClient
    /\ ret' = Return(None)
    /\ requests' = <<>>
    /\ last_op' = [name |-> "_on_model_changed", provider |-> provider, model |-> model,
                   shown |-> <<"F","a","i","l","e","d"," ","t","o"," ","c","h","a","n","g","e"," ","m","o","d","e","l",":"," ","'","P","r","o","g","r","a","m","m","i","n","g","A","s","s","i","s","t","a","n","t","'"," ","o","b","j","e","c","t"," ","h","a","s"," ","n","o"," ","a","t","t","r","i","b","u","t","e"," ","'","s","e","t","_","m","o","d","e","l","'">>]
    /\ UNCHANGED <<conversation_history, api_client, environ, dotenv, processing, worker, input, app, after, terminal>>

NextLaunch ==
    \/ \E provider \in Providers, model \in CliModels : main(provider, model)
    \/ ProgrammingAssistantGUI_init
    \/ CustomGUI_init
    \/ \E provider \in Providers, model \in Models \ {<<>>} :
          _on_model_changed(provider, model)

SpecLaunch == InitLaunch /\ [][NextLaunch]_vars

----------------------------------------------------------------------------
(* Many queries in a row *)

\* config.settings.MAX_HISTORY_LENGTH
MAX_HISTORY_LENGTH == 20

MaxQueries == 11

\* A query answered or refused
LongOutcomes(cls) ==
    {Exception(<<"C","o","n","n","e","c","t","i","o","n"," ","r","e","f","u","s","e","d">>),
     Response(200, well_formed_body(cls, JStr(reply_text)))}

\* process_query called again and again, nothing else
long_process_query(o) ==
    /\ Len(conversation_history) < 2 * MaxQueries
    /\ process_query_call(q_general, o, o)

NextHistory == \E o \in LongOutcomes(api_client.cls) : long_process_query(o)

SpecHistory == Init /\ [][NextHistory]_vars

----------------------------------------------------------------------------
(* The CLI (src/ui/interface.py): one action per line typed at the prompt. *)
(* terminal holds the calls of _print_colored and _print_response in       *)
(* order, [call, text]; colours and highlighting are left out.             *)

MaxPrinted == 4

\* Another reply that holds a fenced block
reply_code_again == <<bq,bq,bq,"p","y","t","h","o","n","\n","y"," ","="," ","2","\n",bq,bq,bq>>

\* The answers a vendor gives in a CLI session
CodeOutcomes(cls) ==
    GuiOutcomes(cls) \cup {Response(200, well_formed_body(cls, JStr(reply_code_again)))}

\* extract_code(x) for any object x
extract_code_of(x) ==
    IF x.t = "str" THEN Return(extract_code(x.v)) ELSE Raise("TypeError", no_findall)

printed(method, text) == [call |-> method, text |-> text]

\* self._print_response(response) when the call before it returned, and the
\* handler of the exception otherwise; prefix opens the handler's message.
response_or_error(result, prefix) ==
    IF result.kind = "return" /\ result.value.t = "str"
    THEN <<printed("_print_response", result.value.v)>>
    ELSE <<printed("_print_colored",
                   prefix \o (IF result.kind = "raise" THEN result.exc.msg
                              ELSE no_findall))>>

\* The files the user names: f.py holding a snippet, or no such file
file_name == <<"f",".","p","y">>
CliFiles == {Str(snippet_naming), None}

\* os.path.abspath in the directory the CLI was started in
abspath(filename) == <<"/","h","o","m","e","/","u","s","e","r","/">> \o filename

InitCli ==
    /\ conversation_history = <<>>
    /\ api_client \in AssistantClients
    /\ environ = unset
    /\ dotenv = unset
    /\ ret = Return(None)
    /\ requests = <<>>
    /\ last_op = [name |-> "start_interactive_session"]
    /\ no_gui
    /\ no_input
    /\ no_cli

\* A line that is no command: process_query and _print_response; the loop's
\* except Exception prints what either raises.
cli_query(query, o1, o2) ==
    /\ Len(terminal) < MaxPrinted
    /\ Len(conversation_history) + 2 <= MaxHistoryLen
    /\ process_query_body(query, o1, o2)
    /\ terminal' = terminal
            \o <<printed("_print_colored", <<"P","r","o","c","e","s","s","i","n","g"," ","y","o","u","r"," ","r","e","q","u","e","s","t",".",".",".">>)>>
            \o response_or_error(ret', <<"A","n"," ","e","r","r","o","r"," ","o","c","c","u","r","r","e","d",":"," ">>)
    /\ last_op' = [name |-> "query", arg |-> query]
    /\ UNCHANGED <<api_client, environ, dotenv, processing, worker, input, app, after>>

\* A command that calls the orchestrator or the client and prints the
\* response; the history is not touched.
cli_command(name, arg, progress, prefix, done) ==
    /\ Len(terminal) < MaxPrinted
    /\ ret' = done.ret
    /\ requests' = done.requests
    /\ terminal' = terminal \o <<printed("_print_colored", progress)>>
                            \o response_or_error(done.ret, prefix)
    /\ last_op' = [name |-> name, arg |-> arg]
    /\ UNCHANGED <<conversation_history, api_client, environ, dotenv, processing, worker, input, app, after>>

\* A command given a file that does not exist
cli_file_not_found(name) ==
    /\ Len(terminal) < MaxPrinted
    /\ ret' = Return(None)
    /\ requests' = <<>>
    /\ terminal' = Append(terminal,
                          printed("_print_colored", <<"F","i","l","e"," ","n","o","t"," ","f","o","u","n","d",":"," ">> \o file_name))
    /\ last_op' = [name |-> name, arg |-> file_name]
    /\ UNCHANGED <<conversation_history, api_client, environ, dotenv, processing, worker, input, app, after>>

\* /task <description>
_convert_task(args, o1, o2) ==
    cli_command("/task", args, <<"C","o","n","v","e","r","t","i","n","g"," ","y","o","u","r"," ","t","a","s","k"," ","t","o"," ","c","o","d","e",".",".",".">>,
                <<"A","n"," ","e","r","r","o","r"," ","o","c","c","u","r","r","e","d",":"," ">>,
                convert_task_to_code(api_client, args, o1, o2))

\* /analyze <file>
_analyze_file(file, o) ==
    IF file = None THEN cli_file_not_found("/analyze")
    ELSE cli_command("/analyze", file_name, <<"A","n","a","l","y","z","i","n","g"," ">> \o file_name \o <<".",".",".">>,
                     <<"E","r","r","o","r"," ","a","n","a","l","y","z","i","n","g"," ","f","i","l","e",":"," ">>,
                     analyze_code(api_client, file.v, o))

explain_prompt(code) ==
    <<"\n"," "," "," "," "," "," "," "," "," "," "," "," ","P","l","e","a","s","e"," ","e","x","p","l","a","i","n"," ","t","h","i","s"," ","c","o","d","e"," ","i","n"," ","s","i","m","p","l","e"," ","t","e","r","m","s"," ","f","o","r"," ","s","o","m","e","o","n","e"," ","w","i","t","h"," ","m","i","n","i","m","a","l"," ","p","r","o","g","r","a","m","m","i","n","g"," ","k","n","o","w","l","e","d","g","e",":","\n"," "," "," "," "," "," "," "," "," "," "," "," ","\n"," "," "," "," "," "," "," "," "," "," "," "," ",bq,bq,bq,"p","y","t","h","o","n","\n"," "," "," "," "," "," "," "," "," "," "," "," ">>
    \o code \o <<"\n"," "," "," "," "," "," "," "," "," "," "," "," ",bq,bq,bq,"\n"," "," "," "," "," "," "," "," "," "," "," "," ","\n"," "," "," "," "," "," "," "," "," "," "," "," ","B","r","e","a","k"," ","d","o","w","n",":">>

simplify_prompt(code) ==
    <<"\n"," "," "," "," "," "," "," "," "," "," "," "," ","P","l","e","a","s","e"," ","s","i","m","p","l","i","f","y"," ","t","h","i","s"," ","c","o","d","e"," ","a","n","d"," ","e","x","p","l","a","i","n"," ","i","t"," ","f","o","r"," ","a"," ","b","e","g","i","n","n","e","r",":","\n"," "," "," "," "," "," "," "," "," "," "," "," ","\n"," "," "," "," "," "," "," "," "," "," "," "," ",bq,bq,bq,"p","y","t","h","o","n","\n"," "," "," "," "," "," "," "," "," "," "," "," ">>
    \o code \o <<"\n"," "," "," "," "," "," "," "," "," "," "," "," ",bq,bq,bq,"\n"," "," "," "," "," "," "," "," "," "," "," "," ","\n"," "," "," "," "," "," "," "," "," "," "," "," ","P","l","e","a","s","e",":">>

\* /explain <file>: the prompt goes to the client, not to the orchestrator
_explain_code(file, o) ==
    IF file = None THEN cli_file_not_found("/explain")
    ELSE cli_command("/explain", file_name, <<"E","x","p","l","a","i","n","i","n","g"," ">> \o file_name \o <<".",".",".">>,
                     <<"E","r","r","o","r"," ","e","x","p","l","a","i","n","i","n","g"," ","f","i","l","e",":"," ">>,
                     answered(<<>>, generate_response(api_client, explain_prompt(file.v),
                                                      None, default_max_tokens, o)))

\* /simplify <file>
_simplify_code(file, o) ==
    IF file = None THEN cli_file_not_found("/simplify")
    ELSE cli_command("/simplify", file_name, <<"S","i","m","p","l","i","f","y","i","n","g"," ">> \o file_name \o <<".",".",".">>,
                     <<"E","r","r","o","r"," ","s","i","m","p","l","i","f","y","i","n","g"," ","f","i","l","e",":"," ">>,
                     answered(<<>>, generate_response(api_client, simplify_prompt(file.v),
                                                      None, default_max_tokens, o)))

\* /clear
cli_clear_history ==
    /\ Len(terminal) < MaxPrinted
    /\ conversation_history' = <<>>
    /\ ret' = Return(None)
    /\ requests' = <<>>
    /\ terminal' = Append(terminal,
                          printed("_print_colored", <<"C","o","n","v","e","r","s","a","t","i","o","n"," ","h","i","s","t","o","r","y"," ","c","l","e","a","r","e","d",".">>))
    /\ last_op' = [name |-> "/clear", arg |-> <<>>]
    /\ UNCHANGED <<api_client, environ, dotenv, processing, worker, input, app, after>>

\* The loop of _save_last_code over reversed(conversation_history), from
\* entry n down: the code of the first assistant entry that holds some, None
\* when no entry does, the TypeError of extract_code on a content of None.
RECURSIVE code_in_history(_, _)
code_in_history(history, n) ==
    IF n = 0 THEN Return(None)
    ELSE IF history[n].role # "assistant" THEN code_in_history(history, n - 1)
    ELSE LET extracted_code == extract_code_of(history[n].content)
         IN  IF extracted_code.kind = "raise" THEN extracted_code
             ELSE IF Truthy(extracted_code.value) THEN extracted_code
             ELSE code_in_history(history, n - 1)

generated_code_py == <<"g","e","n","e","r","a","t","e","d","_","c","o","d","e",".","p","y">>

\* /save [file]: last_op.saved holds the arguments of save_code_to_file, its
\* code None when it was not called
_save_last_code(args) ==
    /\ Len(terminal) < MaxPrinted
    /\ \E code \in {code_in_history(conversation_history, Len(conversation_history))} :
       \E filename \in {IF strip(args) # <<>> THEN strip(args) ELSE generated_code_py} :
          /\ ret' = IF code.kind = "raise" THEN code ELSE Return(None)
          /\ terminal' = Append(terminal,
                printed("_print_colored",
                    IF code.kind = "raise" THEN <<"A","n"," ","e","r","r","o","r"," ","o","c","c","u","r","r","e","d",":"," ">> \o code.exc.msg
                    ELSE IF ~Truthy(code.value)
                         THEN <<"N","o"," ","c","o","d","e"," ","f","o","u","n","d"," ","i","n"," ","t","h","e"," ","r","e","c","e","n","t"," ","c","o","n","v","e","r","s","a","t","i","o","n",".">>
                    ELSE <<"C","o","d","e"," ","s","a","v","e","d"," ","t","o"," ">> \o abspath(filename)))
          /\ last_op' = [name |-> "/save", arg |-> args,
                         saved |-> [code |-> code.value, filename |-> filename]]
    /\ requests' = <<>>
    /\ UNCHANGED <<conversation_history, api_client, environ, dotenv, processing, worker, input, app, after>>

NextCli ==
    \/ \E o \in CodeOutcomes(api_client.cls) : cli_query(q_general, o, o)
    \/ \E o1, o2 \in CodeOutcomes(api_client.cls) : _convert_task(q_task, o1, o2)
    \/ \E file \in CliFiles : \E o \in CodeOutcomes(api_client.cls) : _analyze_file(file, o)
    \/ \E file \in CliFiles : \E o \in CodeOutcomes(api_client.cls) : _explain_code(file, o)
    \/ \E file \in CliFiles : \E o \in CodeOutcomes(api_client.cls) : _simplify_code(file, o)
    \/ cli_clear_history
    \/ \E args \in {<<>>, file_name} : _save_last_code(args)

SpecCli == InitCli /\ [][NextCli]_vars

----------------------------------------------------------------------------
(* Properties *)

generation_ops == {"generate_response", "generate_response_with_history"}

\* The marker every error string of the clients starts with
error_marker == <<"I"," ","e","n","c","o","u","n","t","e","r","e","d"," ","a","n"," ","e","r","r","o","r">>

is_error_string(x) == x.t = "str" /\ Contains(x.v, error_marker)

\* C1: every process_query that returns has appended the user query and then
\* the assistant reply, which is the value returned; so the history always
\* holds an even number of entries, alternating user, assistant.
C1_HistoryAlternates ==
    /\ Len(conversation_history) % 2 = 0
    /\ \A i \in 1..Len(conversation_history) :
          conversation_history[i].role = IF i % 2 = 1 THEN "user" ELSE "assistant"
    /\ (last_op.name = "process_query" /\ ret.kind = "return") =>
          /\ Len(conversation_history) >= 2
          /\ conversation_history[Len(conversation_history) - 1]
                = user_message(last_op.arg)
          /\ conversation_history[Len(conversation_history)]
                = assistant_message(ret.value)

\* The exchange of the last generation call failed: the post raised, the
\* status was no success, or the body is not the vendor's body holding a text.
exchange_failed ==
    \/ last_op.outcome.kind = "exception"
    \/ last_op.outcome.status >= 400
    \/ last_op.outcome.body # well_formed_body(api_client.cls, JStr(reply_text))

\* C2: a generation method of any of the six clients returns a str and never
\* raises; when the exchange failed the str holds the error marker, and the
\* message of the exception when the post raised.
C2_AlwaysAString ==
    last_op.name \in generation_ops =>
        /\ ret.kind = "return"
        /\ ret.value.t = "str"
        /\ exchange_failed => Contains(ret.value.v, error_marker)
        /\ last_op.outcome.kind = "exception" =>
              Contains(ret.value.v, last_op.outcome.msg)

\* C3: every step leaves the previous history as a prefix of the new one,
\* except clear_conversation_history, which leaves it empty.
C3_AppendOrClear ==
    [][\/ /\ Len(conversation_history') >= Len(conversation_history)
          /\ SubSeq(conversation_history', 1, Len(conversation_history))
                = conversation_history
       \/ /\ last_op'.name = "clear_conversation_history"
          /\ conversation_history' = <<>>]_vars

\* A call that returned appended its two entries after the user entry that a
\* call that raised had left
C3_Witness ==
    /\ Len(conversation_history) = 3
    /\ conversation_history[1].role = "user"
    /\ conversation_history[2].role = "user"
    /\ last_op.name = "process_query"

\* The route the last process_query took, as its requests show it
took_task_route ==
    /\ requests # <<>>
    /\ requests[1].method = "generate_response"
    /\ requests[1].prompt = category_prompt(last_op.arg)
took_review_route ==
    \/ requests = <<>>
    \/ /\ Len(requests) = 1
       /\ requests[1].method = "generate_response"
       /\ requests[1].system_prompt = _create_system_prompt_for_code_review
took_general_route ==
    /\ Len(requests) = 1
    /\ requests[1].method = "generate_response_with_history"

TaskQueries == {query \in Queries : _is_task_description(query)}
ReviewQueries ==
    {query \in Queries :
        \/ Contains(lower(query), <<"a","n","a","l","y","z","e"," ","t","h","i","s"," ","c","o","d","e">>)
        \/ Contains(lower(query), <<"r","e","v","i","e","w"," ","t","h","i","s"," ","c","o","d","e">>)}

\* C4: process_query takes the task route when _is_task_description holds,
\* otherwise the review route when the lower-cased query holds one of the two
\* review phrases, otherwise the general route; and one route only.
C4_RoutePrecedence ==
    last_op.name = "process_query" =>
        /\ last_op.arg \in TaskQueries =>
              took_task_route /\ ~took_review_route /\ ~took_general_route
        /\ (last_op.arg \notin TaskQueries /\ last_op.arg \in ReviewQueries) =>
              took_review_route /\ ~took_task_route /\ ~took_general_route
        /\ (last_op.arg \notin TaskQueries /\ last_op.arg \notin ReviewQueries) =>
              took_general_route /\ ~took_task_route /\ ~took_review_route

\* A query that is a task and holds a review phrase went the task route
C4_Witness ==
    /\ last_op.name = "process_query"
    /\ last_op.arg = q_task_and_review
    /\ last_op.arg \in TaskQueries \cap ReviewQueries
    /\ Len(requests) = 2

\* C5: on the general route the messages handed to
\* generate_response_with_history are the whole history with the current user
\* query as last entry, and the system prompt is the general-programming one.
C5_FullHistory ==
    [][(/\ last_op'.name = "process_query"
        /\ requests' # <<>>
        /\ requests'[1].method = "generate_response_with_history") =>
          /\ Len(requests') = 1
          /\ requests'[1].messages
                = Append(conversation_history, user_message(last_op'.arg))
          /\ requests'[1].system_prompt = _create_system_prompt_for_programming]_vars

\* A general query asked when the history already held an exchange
C5_Witness ==
    /\ last_op.name = "process_query"
    /\ last_op.arg = q_general
    /\ Len(conversation_history) = 4
    /\ Len(requests[1].messages) = 3

\* C6: convert_task_to_code makes two requests: the classification (no system
\* prompt), then the conversion, whose prompt holds the task description and
\* a category label and which carries the task-conversion system prompt; it
\* returns the reply of the second.
C6_TwoRequests ==
    last_op.name = "convert_task_to_code" =>
        /\ Len(requests) = 2
        /\ requests[1].prompt = category_prompt(last_op.arg)
        /\ requests[1].system_prompt = None
        /\ Contains(requests[2].prompt, last_op.arg)
        /\ \/ \E n \in 1..Len(task_templates) :
                 Contains(requests[2].prompt, task_templates[n][2])
           \/ Contains(requests[2].prompt, <<"G","e","n","e","r","a","l"," ","p","r","o","g","r","a","m","m","i","n","g"," ","t","a","s","k">>)
        /\ requests[2].system_prompt = _create_system_prompt_for_task_conversion
        /\ ret = Return(requests[2].reply)

\* C7: process_query, convert_task_to_code and analyze_code never raise, and
\* the error string of a failed request is the value returned (in
\* process_query, also the content of the assistant entry).
C7_NeverRaises ==
    last_op.name \in {"process_query", "convert_task_to_code", "analyze_code"} =>
        /\ ret.kind = "return"
        /\ \A i \in 1..Len(requests) :
              is_error_string(requests[i].reply) => ret.value = requests[i].reply
        /\ last_op.name = "process_query" =>
              conversation_history[Len(conversation_history)]
                 = assistant_message(ret.value)

\* The class each provider name of Providers stands for; Mistral is none.
ProviderClass ==
    (<<"c","l","a","u","d","e">> :> "ClaudeAPIClient") @@ (<<"A","n","t","h","r","o","p","i","c">> :> "ClaudeAPIClient")
    @@ (<<"O","P","E","N","A","I">> :> "OpenAIAPIClient") @@ (<<"g","e","m","i","n","i">> :> "GeminiAPIClient")
    @@ (<<"G","o","o","g","l","e">> :> "GeminiAPIClient") @@ (<<"h","u","g","g","i","n","g","f","a","c","e">> :> "HuggingFaceAPIClient")
    @@ (<<"g","r","o","k">> :> "GrokAPIClient") @@ (<<"D","e","e","p","S","e","e","k">> :> "DeepseekAPIClient")

\* The variables each class reads its key from, in order, and the one its
\* error message names
KeyVariables ==
    [ClaudeAPIClient |-> <<"CLAUDE_API_KEY", "ANTHROPIC_API_KEY">>,
     OpenAIAPIClient |-> <<"OPENAI_API_KEY">>,
     GeminiAPIClient |-> <<"GEMINI_API_KEY">>,
     HuggingFaceAPIClient |-> <<"HUGGINGFACE_API_KEY">>,
     GrokAPIClient |-> <<"GROK_API_KEY">>,
     DeepseekAPIClient |-> <<"DEEPSEEK_API_KEY">>]
NamedVariable ==
    [ClaudeAPIClient |-> <<"C","L","A","U","D","E","_","A","P","I","_","K","E","Y">>,
     OpenAIAPIClient |-> <<"O","P","E","N","A","I","_","A","P","I","_","K","E","Y">>,
     GeminiAPIClient |-> <<"G","E","M","I","N","I","_","A","P","I","_","K","E","Y">>,
     HuggingFaceAPIClient |-> <<"H","U","G","G","I","N","G","F","A","C","E","_","A","P","I","_","K","E","Y">>,
     GrokAPIClient |-> <<"G","R","O","K","_","A","P","I","_","K","E","Y">>,
     DeepseekAPIClient |-> <<"D","E","E","P","S","E","E","K","_","A","P","I","_","K","E","Y">>]

\* The first non-empty value of a sequence of optional strings, None if none
RECURSIVE first_non_empty(_)
first_non_empty(values) ==
    IF values = <<>> THEN None
    ELSE IF Truthy(values[1]) THEN values[1]
    ELSE first_non_empty(Tail(values))

\* C8: constructing a client takes as key the first non-empty value among the
\* argument and the class's variables of the environment (as load_dotenv
\* leaves it); with none, a ValueError naming the class's variable is raised
\* and no client is produced; a client's key is never empty, and set_model
\* and the generation calls leave it alone.
C8_KeyResolution ==
    [][/\ (last_op'.name = "create_api_client" /\ last_op'.arg \in DOMAIN ProviderClass) =>
            LET cls == ProviderClass[last_op'.arg]
                key == first_non_empty(<<last_op'.api_key>>
                          \o [i \in 1..Len(KeyVariables[cls]) |->
                                 environ'[KeyVariables[cls][i]]])
            IN  IF key = None
                THEN /\ ret'.kind = "raise"
                     /\ ret'.exc.type = "ValueError"
                     /\ Contains(ret'.exc.msg, NamedVariable[cls])
                     /\ ret'.value = None
                     /\ api_client' = api_client
                ELSE /\ ret'.kind = "return"
                     /\ ret'.value.api_key = key
                     /\ api_client' = ret'.value
       /\ api_client' # NoClient => Truthy(api_client'.api_key)
       /\ last_op'.name \in generation_ops \cup {"set_model"} =>
            api_client'.api_key = api_client.api_key]_vars

\* A Claude client made without an argument, CLAUDE_API_KEY being empty, from
\* ANTHROPIC_API_KEY; and its key kept through a later call
C8_Witness ==
    /\ api_client.cls = "ClaudeAPIClient"
    /\ api_client.api_key = Str(<<"a","k">>)
    /\ environ["CLAUDE_API_KEY"] = Str(<<>>)
    /\ last_op.name \in generation_ops \cup {"set_model"}

\* C9: create_api_client maps the lower-cased name to its class; for any
\* other name it raises a ValueError naming the (lower-cased) value and
\* constructs nothing: no client, and no constructor has loaded the .env file.
C9_FactoryMapping ==
    [][last_op'.name = "create_api_client" =>
          IF last_op'.arg \in DOMAIN ProviderClass
          THEN \/ /\ ret'.kind = "return"
                  /\ ret'.value.cls = ProviderClass[last_op'.arg]
               \/ /\ ret'.kind = "raise"
                  /\ Contains(ret'.exc.msg, NamedVariable[ProviderClass[last_op'.arg]])
          ELSE /\ ret'.kind = "raise"
               /\ ret'.exc.type = "ValueError"
               /\ ret'.exc.msg = <<"U","n","s","u","p","p","o","r","t","e","d"," ","p","r","o","v","i","d","e","r",":"," ","m","i","s","t","r","a","l">>
               /\ ret'.value = None
               /\ api_client' = api_client
               /\ environ' = environ]_vars

\* The name Anthropic gave a Claude client
C9_Witness ==
    /\ last_op.name = "create_api_client"
    /\ last_op.arg = <<"A","n","t","h","r","o","p","i","c">>
    /\ ret.kind = "return"
    /\ ret.value.cls = "ClaudeAPIClient"

\* The request carries the client's model: in the URL path for Gemini and
\* Hugging Face, in the body for the others
carries_model(client, request) ==
    CASE client.cls = "GeminiAPIClient" ->
            request.http.url = client.api_endpoint \o <<"/">> \o client.model
                                  \o <<":","g","e","n","e","r","a","t","e","C","o","n","t","e","n","t","?","k","e","y","=">> \o client.api_key.v
      [] client.cls = "HuggingFaceAPIClient" ->
            request.http.url = client.api_endpoint \o <<"/">> \o client.model
      [] OTHER ->
            /\ request.http.url = client.api_endpoint
            /\ request.http.json.model = client.model

\* C10: set_model(m) makes m the client's model, whatever m is, and changes
\* nothing else of the client; a generation call leaves the client alone and
\* its request carries the client's model.
C10_ModelInUse ==
    [][/\ last_op'.name = "set_model" =>
            /\ ret'.kind = "return"
            /\ api_client' = [api_client EXCEPT !.model = last_op'.arg]
       /\ last_op'.name \in generation_ops =>
            /\ api_client' = api_client
            /\ Len(requests') = 1
            /\ carries_model(api_client, requests'[1])]_vars

\* A request of a Gemini client made after set_model("m2")
C10_Witness ==
    /\ last_op.name \in generation_ops
    /\ api_client.cls = "GeminiAPIClient"
    /\ api_client.model = <<"m","2">>
    /\ carries_model(api_client, requests[1])

\* The worker is inside process_query, between its two appends
between_appends == worker.pc \in {"appended", "responded"}

\* C11: in the GUI the calls on the orchestrator are serialized:
\* clear_conversation_history (File > Clear History) never runs between the
\* worker's append of the user entry and its append of the assistant entry,
\* so that while the worker is between the two the history ends with the
\* user entry it appended.
C11_Serialized ==
    /\ (last_op.name = "_clear_history") => ~between_appends
    /\ between_appends =>
          /\ conversation_history # <<>>
          /\ conversation_history[Len(conversation_history)]
                = user_message(worker.user_input)

\* The labels of the categories whose keyword the text holds, in any case
labels_matching(text) ==
    {task_templates[n][2] : n \in {k \in 1..Len(task_templates) :
                                      Contains(lower(text), task_templates[k][1])}}

\* C12: the category is taken from the classification reply by
\* case-insensitive substring match against the six keywords: the label of a
\* keyword the reply holds, "General programming task" when it holds none
\* (a client error string included); classification never fails and never
\* keeps the conversion request from being sent.
C12_CategoryFromReply ==
    last_op.name = "convert_task_to_code" =>
        /\ ret.kind = "return"
        /\ Len(requests) = 2
        /\ LET reply == format(requests[1].reply)
               labels == IF labels_matching(reply) = {}
                         THEN {<<"G","e","n","e","r","a","l"," ","p","r","o","g","r","a","m","m","i","n","g"," ","t","a","s","k">>}
                         ELSE labels_matching(reply)
           IN  \E label \in labels :
                  requests[2].prompt = conversion_prompt(last_op.arg, label)

\* C13: _is_task_description(q) is true exactly when the lower-cased q holds
\* one of the task-indicator phrases, or q has more than 8
\* whitespace-separated tokens and extract_code finds no code in it (gives
\* nothing, or a block with nothing in it); so a query of at most 8 tokens
\* without a phrase is no task, and neither is a long query without a phrase
\* that holds code.
C13_TaskExactly ==
    last_op.name = "_is_task_description" =>
        LET q == last_op.arg
            phrase == \E indicator \in task_indicators : Contains(lower(q), indicator)
            long == split_len(q) > 8
            code == extract_code(q)
            found == code.t = "str" /\ code.v # <<>>
        IN  /\ ret.value = Bool(phrase \/ (long /\ ~found))
            /\ (~phrase /\ ~long) => ret.value = Bool(FALSE)
            /\ (~phrase /\ long /\ found) => ret.value = Bool(FALSE)

\* A query of nine words and a fenced block (twelve tokens with the block's),
\* without a phrase, was no task
C13_Witness ==
    /\ last_op.name = "_is_task_description"
    /\ last_op.arg = <<"p"," ","q"," ","r"," ","s"," ","t"," ","u"," ","v"," ","w"," ","x","\n",bq,bq,bq,"\n","z","\n",bq,bq,bq>>
    /\ split_len(last_op.arg) = 12
    /\ extract_code(last_op.arg) = Str(<<"z">>)
    /\ ret.value = Bool(FALSE)

\* The first fenced block of a text: the first fence opens it, its line may
\* carry a tag, the body runs from the next line to the next fence.
block_open(text) == Find(text, Fence, 1)
block_line_end(text) ==
    IF block_open(text) = 0 THEN 0 ELSE Find(text, <<"\n">>, block_open(text) + 3)
block_close(text) ==
    IF block_line_end(text) = 0 THEN 0 ELSE Find(text, Fence, block_line_end(text) + 1)
has_block(text) == block_close(text) # 0
block_tag(text) == SubSeq(text, block_open(text) + 3, block_line_end(text) - 1)
block_body(text) == SubSeq(text, block_line_end(text) + 1, block_close(text) - 1)

\* C14: for a text that holds a fenced block, extract_code gives the body of
\* the first block (the one whose opening fence comes first), without the
\* whitespace around it, whatever follows the block.
C14_FirstBlock ==
    (last_op.name = "extract_code" /\ has_block(last_op.arg)) =>
        ret.value = Str(strip(block_body(last_op.arg)))

\* C15: a block whose opening fence carries a tag (python, py or another) is
\* recognised all the same: the value is the body of the block, and the tag
\* is no part of it.
C15_TagStripped ==
    (/\ last_op.name = "extract_code"
     /\ has_block(last_op.arg)
     /\ block_tag(last_op.arg) # <<>>) =>
        /\ ret.value.t = "str"
        /\ ret.value.v = strip(block_body(last_op.arg))
        /\ ~StartsAt(ret.value.v, 1, block_tag(last_op.arg))

\* A line without its indentation: the four spaces or the tab it begins with
deindented(line) ==
    IF StartsAt(line, 1, <<" "," "," "," ">>) THEN SubSeq(line, 5, Len(line))
    ELSE IF StartsAt(line, 1, <<"\t">>) THEN SubSeq(line, 2, Len(line))
    ELSE line

begins_indented(line) == StartsAt(line, 1, <<" "," "," "," ">>) \/ StartsAt(line, 1, <<"\t">>)
blank(line) == \A k \in 1..Len(line) : isspace(line[k])

\* The first run of indented lines of a text, blank lines inside it kept,
\* ended by the first line that is neither indented nor blank; each line as
\* shown(line) gives it.  <<>> when no line is indented.
first_run(text, shown(_)) ==
    LET lines == split_lines(text)
        indented == {n \in 1..Len(lines) : begins_indented(lines[n])}
    IN  IF indented = {} THEN <<>>
        ELSE LET first == CHOOSE n \in indented : \A m \in indented : n <= m
                 ends == {n \in first..Len(lines) :
                             ~begins_indented(lines[n]) /\ ~blank(lines[n])}
                 last == IF ends = {} THEN Len(lines)
                         ELSE (CHOOSE n \in ends : \A m \in ends : n <= m) - 1
             IN  [n \in 1..(last - first + 1) |->
                    IF begins_indented(lines[first + n - 1])
                    THEN shown(lines[first + n - 1]) ELSE <<>>]

\* C16: for a text without a fenced block, extract_code gives the first run
\* of lines that begin with four spaces or a tab (blank lines inside it kept,
\* ended by the first line neither indented nor blank), de-indented and
\* joined by newlines; None when there is no such run, as for the empty text.
C16_IndentedRun ==
    (last_op.name = "extract_code" /\ ~has_block(last_op.arg)) =>
        ret.value = IF first_run(last_op.arg, deindented) = <<>> THEN None
                    ELSE Str(join_lines(first_run(last_op.arg, deindented)))

\* The analyzer has been applied to a program
analyzed == last_op.name = "analyze"

\* The program is made of statements that all parse
parses(code) ==
    LET stmts == program_statements(code)
    IN  \A n \in 1..Len(stmts) : stmts[n].kind = "tree"

ends_with(s, p) ==
    Len(p) <= Len(s) /\ SubSeq(s, Len(s) - Len(p) + 1, Len(s)) = p

\* C17: for every snippet that fails to parse, analyze returns a result with
\* exactly one issue, a string containing "syntax error" followed by the
\* parser's message, with complexity "Unknown" and with line_count,
\* function_count and class_count all 0.
C17_ParseFailure ==
    (analyzed /\ ~parses(last_op.arg)) =>
        /\ ret.kind = "return"
        /\ Len(ret.value.issues) = 1
        /\ Contains(lower(ret.value.issues[1]), <<"s","y","n","t","a","x"," ","e","r","r","o","r">>)
        /\ ends_with(ret.value.issues[1], ast_parse(last_op.arg).msg)
        /\ ret.value.complexity = <<"U","n","k","n","o","w","n">>
        /\ ret.value.line_count = 0
        /\ ret.value.function_count = 0
        /\ ret.value.class_count = 0

\* The nodes of the tree of a program whose type is one of the given
defined(code, types) ==
    LET nodes == ast_parse(code).nodes
    IN  Cardinality({n \in 1..Len(nodes) : nodes[n].type \in types})

\* C18: for every snippet with valid syntax that defines N functions and M
\* classes, at any nesting depth, analyze reports function_count = N and
\* class_count = M. A coroutine function (async def) is a function the
\* snippet defines.
C18_DefinitionCounts ==
    (analyzed /\ parses(last_op.arg)) =>
        /\ ret.kind = "return"
        /\ ret.value.function_count = defined(last_op.arg, {"FunctionDef", "AsyncFunctionDef"})
        /\ ret.value.class_count = defined(last_op.arg, {"ClassDef"})

bare_except_issue == <<"U","s","e","s"," ","b","a","r","e"," ","'","e","x","c","e","p","t",":","'"," ","w","i","t","h","o","u","t"," ","s","p","e","c","i","f","y","i","n","g"," ","e","x","c","e","p","t","i","o","n","s">>

reported(issue) == \E n \in 1..Len(ret.value.issues) : ret.value.issues[n] = issue

\* The text holds the word except, then blanks or none, then a colon
except_colon(text) ==
    \E i \in 1..Len(text), j \in 1..Len(text) :
        /\ i + 6 <= j
        /\ SubSeq(text, i, i + 5) = <<"e","x","c","e","p","t">>
        /\ text[j] = ":"
        /\ \A k \in (i + 6)..(j - 1) : text[k] \in {" ", "\t", "\n", "\r", "\f"}

\* The tree has an exception handler that names no type
bare_handler(code) ==
    LET nodes == ast_parse(code).nodes
    IN  \E n \in 1..Len(nodes) :
            /\ nodes[n].type = "ExceptHandler"
            /\ nodes[n].values = 0

\* C19 (amended): for every parseable snippet, the issues returned by analyze
\* contain the bare-except issue string if and only if the text of the
\* snippet holds the word except followed by optional whitespace and a
\* colon, wherever in the text that is (a string, a comment, a clause).
C19_BareExceptText ==
    (analyzed /\ parses(last_op.arg)) =>
        /\ ret.kind = "return"
        /\ reported(bare_except_issue) <=> except_colon(last_op.arg)

\* C19 witness: a program with no exception handler at all whose text holds
\* except and a colon in a string has been analyzed and got the issue
C19_Witness ==
    /\ analyzed
    /\ parses(last_op.arg)
    /\ defined(last_op.arg, {"ExceptHandler"}) = 0
    /\ except_colon(last_op.arg)
    /\ ret.kind = "return"
    /\ reported(bare_except_issue)

\* C19 as stated: for every parseable snippet, the issues contain the
\* bare-except issue string if and only if the snippet has an exception-catch
\* clause that names no error type.
C19_BareClause ==
    (analyzed /\ parses(last_op.arg)) =>
        /\ ret.kind = "return"
        /\ reported(bare_except_issue) <=> bare_handler(last_op.arg)

\* The operands beyond the first of the and/or expressions among the nodes
\* from the n-th on
RECURSIVE chain_operands(_, _)
chain_operands(nodes, n) ==
    IF n > Len(nodes) THEN 0
    ELSE (IF nodes[n].type = "BoolOp" THEN nodes[n].values - 1 ELSE 0)
         + chain_operands(nodes, n + 1)

score(code) ==
    LET nodes == ast_parse(code).nodes
    IN  Cardinality({n \in 1..Len(nodes) : nodes[n].type \in {"If", "For", "While", "Try"}})
        + chain_operands(nodes, 1)

\* C20: for every parseable snippet, the complexity score is the number of
\* if, for, while and try nodes anywhere in the tree plus, for each and/or
\* expression, its operand count minus 1; the bucket is Low when the score is
\* below 5, Medium when it is 5 to 9, High when it is 10 or more, and never
\* "Unknown".
C20_Complexity ==
    (analyzed /\ parses(last_op.arg)) =>
        /\ ret.kind = "return"
        /\ LET points == score(last_op.arg)
           IN  /\ points < 5 => ret.value.complexity = <<"L","o","w">>
               /\ points \in 5..9 => ret.value.complexity = <<"M","e","d","i","u","m">>
               /\ points >= 10 => ret.value.complexity = <<"H","i","g","h">>
        /\ ret.value.complexity # <<"U","n","k","n","o","w","n">>

\* C20 witness: a program of score exactly 10, two and/or expressions in
\* it, has been analyzed and is reported High
C20_Witness ==
    /\ analyzed
    /\ parses(last_op.arg)
    /\ score(last_op.arg) = 10
    /\ chain_operands(ast_parse(last_op.arg).nodes, 1) = 3
    /\ ret.kind = "return"
    /\ ret.value.complexity = <<"H","i","g","h">>

\* The client methods one operation called, in order
methods_called == [i \in 1..Len(requests) |-> requests[i].method]

\* C21: the requests one process_query makes are fixed by its route: the task
\* route makes exactly two generate_response requests; the review route makes
\* exactly one generate_response request when code can be extracted from the
\* query and none when no code is found, replying with the fixed "no code"
\* message; the general route makes exactly one
\* generate_response_with_history request.
C21_RequestsByRoute ==
    last_op.name = "process_query" =>
        \A route \in {memo_route_of(last_op.arg)} :
            /\ route = "task" =>
                  methods_called = <<"generate_response", "generate_response">>
            /\ (route = "review" /\ Truthy(memo_extract_code(last_op.arg))) =>
                  methods_called = <<"generate_response">>
            /\ (route = "review" /\ ~Truthy(memo_extract_code(last_op.arg))) =>
                  /\ methods_called = <<>>
                  /\ ret = Return(no_code_message)
            /\ route = "general" =>
                  methods_called = <<"generate_response_with_history">>

\* The class of the client the factory makes for a provider
factory_class(provider) ==
    create_api_client(provider, test_key, unset, unset).result.value.cls

\* C22: the orchestrator is created for the provider and model its caller
\* asks for, with the client the factory makes for that provider (the CLI
\* passes --provider/--model, the GUI passes "claude"); and once the user has
\* picked provider P and model M in the model selector, the active client is
\* P's client with model M.
C22_ClientAsAsked ==
    /\ last_op.name \in {"main", "ProgrammingAssistantGUI.__init__", "CustomGUI.__init__"} =>
          \/ create_api_client(last_op.provider, None, environ, dotenv).result.kind = "raise"
          \/ /\ ret.kind = "return"
             /\ api_client.cls = factory_class(last_op.provider)
             /\ last_op.model.t = "str" => api_client.model = last_op.model.v
    /\ (last_op.name = "_on_model_changed"
        /\ create_api_client(last_op.provider, test_key, unset, unset).result.kind = "return") =>
          /\ api_client.cls = factory_class(last_op.provider)
          /\ api_client.model = last_op.model

\* C23: the conversation history never holds more than MAX_HISTORY_LENGTH
\* (20) messages, after any sequence of process_query calls.
C23_HistoryBounded == Len(conversation_history) <= MAX_HISTORY_LENGTH

\* The responses printed since the last /clear that hold code, as positions
\* in terminal
responses_with_code ==
    LET cleared == {n \in 1..Len(terminal) :
                       terminal[n] = printed("_print_colored",
                                             <<"C","o","n","v","e","r","s","a","t","i","o","n"," ","h","i","s","t","o","r","y"," ","c","l","e","a","r","e","d",".">>)}
        first == IF cleared = {} THEN 1
                 ELSE (CHOOSE n \in cleared : \A m \in cleared : m <= n) + 1
    IN  {n \in first..Len(terminal) :
            /\ terminal[n].call = "_print_response"
            /\ Truthy(extract_code(terminal[n].text))}

\* C24: after any sequence of CLI inputs, /save writes the code of the most
\* recent response that held code, whichever input produced that response,
\* and reports that no code was found only when no response since the last
\* /clear held code.
C24_SaveLatestCode ==
    last_op.name = "/save" =>
        /\ responses_with_code # {} =>
              \A latest \in {CHOOSE n \in responses_with_code :
                                \A m \in responses_with_code : m <= n} :
                 last_op.saved.code = extract_code(terminal[latest].text)
        /\ terminal[Len(terminal)].text = <<"N","o"," ","c","o","d","e"," ","f","o","u","n","d"," ","i","n"," ","t","h","e"," ","r","e","c","e","n","t"," ","c","o","n","v","e","r","s","a","t","i","o","n",".">>
              => responses_with_code = {}

\* The thread is inside its orchestrator call
in_call == worker.pc \in {"started", "appended", "responded"}

\* C25: in the GUI at most one orchestrator call is in progress at any time:
\* a thread starts only when the processing flag is false, the flag is true
\* from then on, and it returns to false only after that thread's
\* orchestrator call has returned or raised, whichever trigger made the
\* submission.  (While the flag is false no thread is before its finally.)
C25_OneCallAtATime ==
    [][/\ worker'.pc = "started" /\ worker.pc # "started" => ~processing /\ processing'
       /\ worker'.pc = "started" => worker.pc \in {"idle", "started"}
       /\ processing /\ ~processing' => worker.pc = "finishing" /\ worker'.pc = "idle"
       /\ ~processing' => worker'.pc = "idle"]_vars

\* A submission made through Tools > Analyze Code while the Submit button
\* was disabled has had its call and the flag is lowered again
C25_Witness ==
    /\ last_op.name = "_process_in_thread"
    /\ ~processing
    /\ app.submit_button = "disabled"
    /\ worker.ending = 2

\* The interface shows the idle state
idle_shown == app.submit_button = "normal" /\ app.status_label = "Ready"

\* C26: whenever the GUI shows the idle state (submit button enabled, status
\* "Ready") no request is in progress: the flag is false and no thread is
\* executing an orchestrator call.
C26_IdleMeansNoRequest == idle_shown => ~processing /\ ~in_call

\* C27: every submission accepted by process_input is eventually followed by
\* the processing flag being false and the interface reset to idle (submit
\* enabled, progress stopped, status "Ready"), whether the orchestrator call
\* returns or raises.
C27_EventuallyIdle ==
    processing ~> (~processing /\ idle_shown /\ app.progress_bar = "stopped")

\* A thread whose call raised has lowered the flag and its reset has run
C27_Witness ==
    /\ last_op.name = "_process_in_thread"
    /\ ret.kind = "raise"
    /\ ~processing /\ idle_shown /\ app.progress_bar = "stopped"
    /\ after = <<>> /\ worker = NoWorker
    /\ app.output_text.kind = "error"

\* C30: in the GUI last_code is always the code extracted from the response
\* the output area shows: empty when the area shows a response without
\* code, an error message or nothing.
C30_LastCodeIsShown ==
    app.last_code =
        IF app.output_text.kind = "response"
        THEN Or(memo_extract_code(app.output_text.text), Str(<<>>)).v
        ELSE <<>>

\* C28: a process_query call that does not complete normally (an exception
\* propagates out of it) leaves the conversation history exactly as it was
\* before the call.
C28_RaiseRestoresHistory ==
    [][last_op'.name = "process_query" /\ ret'.kind = "raise"
          => conversation_history' = conversation_history]_vars

direct_calls == {"convert_task_to_code", "analyze_code", "generate_code"}

====
